---- MODULE Spec2Model ----
(***************************************************************************)
(* A model of the response post-processing pipeline of the AI assistant     *)
(* client: ThinkingResponseFormatter / ResponseStatistics /                 *)
(* ResponseProcessor (util/response_formatter.py) and the story builder of  *)
(* MarkdownToPDFGenerator (util/pdf_generator.py), the document export of  *)
(* MarkdownToPDFGenerator.generate_pdf and MainChatInterface               *)
(* (gui/chat_interface.py), and the backend client (util/api_client.py).   *)
(*                                                                         *)
(* Strings of the formatter are sequences of one-character strings, so     *)
(* that the two regular-expression passes act on characters and a tag can  *)
(* be formed by the characters left and right of a removed span.           *)
(***************************************************************************)
EXTENDS Integers, Sequences, FiniteSets, TLC

VARIABLES
    response,      \* the raw response handed to process_response
    formatted,     \* the dictionary process_response returned, or Null
    again,         \* format_response applied to formatted.main_response, or Null
    doc,           \* the markdown document handed to _build_story
    question,      \* the question handed to _build_story
    model_name,    \* the model name handed to _build_story
    story,         \* the story _build_story returned, or Null
    pc,            \* the position of the pipeline
    buffers,       \* the io.BytesIO objects created so far, in creation order
    result,        \* what the call under study returned or raised, or Null
    ui,            \* the streamlit elements displayed so far, in call order
    session,       \* st.session_state
    mode,          \* the mode selected in the sidebar
    backend,       \* what the backend does with the request of this run
    sent,          \* the HTTP requests sent so far, in order
    env            \* what the surroundings hand to the call: the user's
                   \* input, the environment of the server process

exportVars == <<buffers, result, ui, session>>

clientVars == <<mode, backend, sent>>

vars == <<response, formatted, again, doc, question, model_name, story, pc,
          buffers, result, ui, session, mode, backend, sent, env>>

Null == <<>>

\* Nothing exported, displayed or requested yet.
Idle ==
    /\ buffers = <<>>
    /\ result = Null
    /\ ui = <<>>
    /\ session = Null
    /\ mode = "Cloud AI"
    /\ backend = Null
    /\ sent = <<>>

(***************************************************************************)
(* Bounds of the model.                                                    *)
(***************************************************************************)
MaxPieces == 4
MaxWrapped == 2
MaxBlocks == 2
MaxCode == 2
MaxItems == 2

(***************************************************************************)
(* Characters and the two delimiters.                                      *)
(***************************************************************************)
OpenTag == <<"<", "t", "h", "i", "n", "k", ">">>
CloseTag == <<"<", "/", "t", "h", "i", "n", "k", ">">>

\* str.strip() and str.split() with no argument act on whitespace.
Whitespace == {" ", "\n", "\t"}

RECURSIVE Concat(_)
Concat(ss) == IF ss = <<>> THEN <<>> ELSE Head(ss) \o Concat(Tail(ss))

\* pat occurs in s at position i.
StartsAt(s, i, pat) ==
    /\ i >= 1
    /\ i + Len(pat) - 1 <= Len(s)
    /\ SubSeq(s, i, i + Len(pat) - 1) = pat

\* The least position >= i at which pat occurs in s, 0 when there is none.
RECURSIVE FindFrom(_, _, _)
FindFrom(s, i, pat) ==
    IF i + Len(pat) - 1 > Len(s) THEN 0
    ELSE IF StartsAt(s, i, pat) THEN i
    ELSE FindFrom(s, i + 1, pat)

Contains(s, pat) == FindFrom(s, 1, pat) # 0

(***************************************************************************)
(* The pattern <think>(.*?)</think>.  DotMatches is the class of ".": with  *)
(* flags=re.DOTALL every character, the line break included.               *)
(***************************************************************************)
DotMatches(c) == TRUE

AllDot(s, from, to) == \A k \in from..to : DotMatches(s[k])

\* The pattern with an optional closing tag: an opening tag without a closing
\* tag matches to the end of the string.
MatchAtOrToEnd(s, p) ==
    IF ~StartsAt(s, p, OpenTag) THEN <<0, 0>>
    ELSE LET q == FindFrom(s, p + Len(OpenTag), CloseTag)
         IN  IF q # 0 THEN <<p, q>> ELSE <<p, Len(s) + 1>>

\* The least position >= i at which pat occurs in s with no later occurrence,
\* 0 when there is none.
RECURSIVE FindLastFrom(_, _, _)
FindLastFrom(s, i, pat) ==
    LET q == FindFrom(s, i, pat)
    IN  IF q = 0 THEN 0
        ELSE IF FindFrom(s, q + 1, pat) = 0 THEN q
        ELSE FindLastFrom(s, q + 1, pat)

\* The pattern with a greedy group, <think>(.*)</think>: the match runs to
\* the last closing tag.
MatchAtGreedy(s, p) ==
    IF ~StartsAt(s, p, OpenTag) THEN <<0, 0>>
    ELSE LET q == FindLastFrom(s, p + Len(OpenTag), CloseTag)
         IN  IF q # 0 /\ AllDot(s, p + Len(OpenTag), q - 1)
             THEN <<p, q>> ELSE <<0, 0>>

\* The match of the pattern that starts exactly at p: <<p, q>> with q the
\* position of the first closing tag the lazy group can reach, or <<0, 0>>.
MatchAt(s, p) ==
    IF ~StartsAt(s, p, OpenTag) THEN <<0, 0>>
    ELSE LET q == FindFrom(s, p + Len(OpenTag), CloseTag)
         IN  IF q # 0 /\ AllDot(s, p + Len(OpenTag), q - 1)
             THEN <<p, q>> ELSE <<0, 0>>

\* The leftmost match that starts at or after i.
RECURSIVE NextMatch(_, _)
NextMatch(s, i) ==
    IF i > Len(s) THEN <<0, 0>>
    ELSE IF MatchAt(s, i) # <<0, 0>> THEN MatchAt(s, i)
    ELSE NextMatch(s, i + 1)

\* re.findall(think_pattern, response, flags=re.DOTALL): the groups of the
\* non-overlapping matches, left to right.
RECURSIVE FindAllFrom(_, _)
FindAllFrom(s, i) ==
    LET m == NextMatch(s, i)
    IN  IF m = <<0, 0>> THEN <<>>
        ELSE <<SubSeq(s, m[1] + Len(OpenTag), m[2] - 1)>>
             \o FindAllFrom(s, m[2] + Len(CloseTag))

FindAllThink(s) == FindAllFrom(s, 1)

\* re.sub(think_pattern, '', response, flags=re.DOTALL)
RECURSIVE SubPairsFrom(_, _)
SubPairsFrom(s, i) ==
    LET m == NextMatch(s, i)
    IN  IF m = <<0, 0>> THEN SubSeq(s, i, Len(s))
        ELSE SubSeq(s, i, m[1] - 1) \o SubPairsFrom(s, m[2] + Len(CloseTag))

SubThinkPairs(s) == SubPairsFrom(s, 1)

\* re.sub(r'</?think>', '', main_response): one pass, left to right.
RECURSIVE SubTagsFrom(_, _)
SubTagsFrom(s, i) ==
    IF i > Len(s) THEN <<>>
    ELSE IF StartsAt(s, i, OpenTag) THEN SubTagsFrom(s, i + Len(OpenTag))
    ELSE IF StartsAt(s, i, CloseTag) THEN SubTagsFrom(s, i + Len(CloseTag))
    ELSE <<s[i]>> \o SubTagsFrom(s, i + 1)

SubStrayTags(s) == SubTagsFrom(s, 1)

\* str.strip()
RECURSIVE LStrip(_)
LStrip(s) ==
    IF s # <<>> /\ Head(s) \in Whitespace THEN LStrip(Tail(s)) ELSE s

RECURSIVE RStrip(_)
RStrip(s) ==
    IF s # <<>> /\ s[Len(s)] \in Whitespace
    THEN RStrip(SubSeq(s, 1, Len(s) - 1)) ELSE s

\* Strips the leading whitespace only.
StripLeftOnly(s) == LStrip(s)

\* Removes one whitespace character at each end only.
StripOnce(s) ==
    LET l == IF s # <<>> /\ Head(s) \in Whitespace THEN Tail(s) ELSE s
    IN  IF l # <<>> /\ l[Len(l)] \in Whitespace
        THEN SubSeq(l, 1, Len(l) - 1) ELSE l

Strip(s) == RStrip(LStrip(s))

\* ThinkingResponseFormatter.format_response
format_response(s) ==
    [thinking |-> FindAllThink(s),
     main_response |-> Strip(SubStrayTags(SubThinkPairs(s)))]

\* len(self.response.split()): the whitespace-separated tokens.
RECURSIVE SplitCount(_, _)
SplitCount(s, inWord) ==
    IF s = <<>> THEN 0
    ELSE IF Head(s) \in Whitespace THEN SplitCount(Tail(s), FALSE)
    ELSE (IF inWord THEN 0 ELSE 1) + SplitCount(Tail(s), TRUE)

get_word_count(s) == SplitCount(s, FALSE)

get_character_count(s) == Len(s)

get_statistics(s) ==
    [word_count |-> get_word_count(s),
     character_count |-> get_character_count(s)]

\* process_response with the statistics taken from the formatted text.
process_response_main_stats(s) ==
    LET f == format_response(s)
    IN  [thinking |-> f.thinking,
         main_response |-> f.main_response,
         statistics |-> get_statistics(f.main_response)]

\* ResponseProcessor.process_response
process_response(s) ==
    LET f == format_response(s)
    IN  [thinking |-> f.thinking,
         main_response |-> f.main_response,
         statistics |-> get_statistics(s)]

(***************************************************************************)
(* Raw responses.  A response is a concatenation of at most MaxPieces      *)
(* pieces: whole delimiters, the two halves of a delimiter, text and       *)
(* whitespace; or of at most MaxWrapped delimiters split twice around a     *)
(* core (nothing, or an empty think block).                                *)
(***************************************************************************)
Pieces ==
    { OpenTag, CloseTag, <<"<", "t", "h", "i">>, <<"n", "k", ">">>,
      <<"a">>, <<" ">>, <<"\n">> }

RECURSIVE SeqsUpTo(_, _)
SeqsUpTo(S, n) ==
    IF n = 0 THEN {<<>>}
    ELSE LET shorter == SeqsUpTo(S, n - 1)
         IN  shorter \cup {<<x>> \o t : x \in S, t \in {u \in shorter : Len(u) = n - 1}}

PieceResponses == {Concat(ps) : ps \in SeqsUpTo(Pieces, MaxPieces)}

\* tag split after its fourth-from-last character around inner text.
Wrap(tag, inner) ==
    SubSeq(tag, 1, Len(tag) - 3) \o inner \o SubSeq(tag, Len(tag) - 2, Len(tag))

Wrapped ==
    { Wrap(t1, Wrap(t2, core)) :
        t1 \in {OpenTag, CloseTag}, t2 \in {OpenTag, CloseTag},
        core \in {<<>>, OpenTag \o CloseTag} }

WrappedResponses == {Concat(ws) : ws \in SeqsUpTo(Wrapped, MaxWrapped)}

RawResponses == PieceResponses \cup WrappedResponses

(***************************************************************************)
(* The formatting specification: a response arrives, process_response      *)
(* formats it, and format_response is applied once more to its main text.  *)
(***************************************************************************)
InitFormat ==
    /\ response \in RawResponses
    /\ formatted = Null
    /\ again = Null
    /\ doc = <<>>
    /\ question = <<>>
    /\ model_name = <<>>
    /\ story = Null
    /\ pc = "received"
    /\ Idle
    /\ env = Null

ProcessResponse ==
    /\ pc = "received"
    /\ formatted' = process_response(response)
    /\ pc' = "processed"
    /\ UNCHANGED <<response, again, doc, question, model_name, story,
                   exportVars, clientVars,
                   env>>

FormatMainAgain ==
    /\ pc = "processed"
    /\ again' = format_response(formatted.main_response)
    /\ pc' = "reformatted"
    /\ UNCHANGED <<response, formatted, doc, question, model_name, story,
                   exportVars, clientVars,
                   env>>

NextFormat == ProcessResponse \/ FormatMainAgain

SpecFormat == InitFormat /\ [][NextFormat]_vars

(***************************************************************************)
(* The document renderer.  Text is a sequence of tokens (words, markers,   *)
(* tags, single whitespace characters).  A markdown document is a sequence *)
(* of blocks separated by blank lines; MarkdownSource is its text and      *)
(* MarkdownToHtml the element tree markdown.markdown and BeautifulSoup     *)
(* make of that text.                                                      *)
(***************************************************************************)
TextNode(w) == [name |-> "#text", text |-> w, kids |-> <<>>]

Element(n, ks) == [name |-> n, text |-> "", kids |-> ks]

NL == TextNode("\n")

\* The backtick, the code fence and the bullet, written in ASCII.
Backtick == "&#96;"

Fence == "&#96;&#96;&#96;"

BulletGlyph == "\\u2022 "

ItemWords == <<"a", "b", "c", "d">>

NestedWords == <<"n1", "n2", "n3", "n4">>

\* The blocks of a document.
ParaBlocks ==
    [kind : {"para"}, ncode : 0..MaxCode, emph : {"none", "strong", "em"}]

HeadingBlocks == [kind : {"heading"}, level : 1..4]

OtherBlocks == [kind : {"hr", "code", "quote", "table"}]

\* A list of 1..MaxItems items; its last item may hold a nested list.
ListBlocks ==
    [kind : {"list"}, tag : {"ul", "ol"}, n : 1..MaxItems,
     subtag : {"none", "ul", "ol"}, subn : 1..MaxItems]

IsList(b) == b.kind = "list"

Blocks ==
    ParaBlocks \cup HeadingBlocks \cup OtherBlocks
        \cup {b \in ListBlocks : b.subtag = "none" => b.subn = 1}

\* Two lists, or two quotes, that follow each other are one list, or one
\* quote, to the markdown parser: such documents are written as one block.
Docs ==
    {d \in SeqsUpTo(Blocks, MaxBlocks) :
        \A i \in 1..(Len(d) - 1) :
            /\ ~(IsList(d[i]) /\ IsList(d[i + 1]))
            /\ ~(d[i].kind = "quote" /\ d[i + 1].kind = "quote")}

RECURSIVE Repeat(_, _)
Repeat(s, n) == IF n = 0 THEN <<>> ELSE s \o Repeat(s, n - 1)

\* Joins the sequences of ss with sep between them.
RECURSIVE Join(_, _)
Join(ss, sep) ==
    IF ss = <<>> THEN <<>>
    ELSE IF Len(ss) = 1 THEN ss[1]
    ELSE ss[1] \o sep \o Join(Tail(ss), sep)

Marker(tag, i) == IF tag = "ul" THEN "-" ELSE <<"1.", "2.", "3.", "4.">>[i]

\* The markdown text of a block.
BlockSource(b) ==
    CASE b.kind = "para" ->
            <<"a">> \o Repeat(<<" ", Backtick, "x", Backtick>>, b.ncode)
            \o (IF b.emph = "strong" THEN <<" ", "**", "b", "**">>
                ELSE IF b.emph = "em" THEN <<" ", "*", "b", "*">>
                ELSE <<>>)
      [] b.kind = "heading" -> Repeat(<<"#">>, b.level) \o <<" ", "t">>
      [] b.kind = "hr" -> <<"---">>
      [] b.kind = "code" -> <<Fence, "\n", "x", "\n", Fence>>
      [] b.kind = "quote" -> <<">", " ", "q">>
      [] b.kind = "table" ->
            <<"h", "|", "h", "\n", "-", "|", "-", "\n", "c", "|", "c">>
      [] b.kind = "list" ->
            Join([i \in 1..b.n |-> <<Marker(b.tag, i), " ", ItemWords[i]>>],
                 <<"\n">>)
            \o (IF b.subtag = "none" THEN <<>>
                ELSE Concat([j \in 1..b.subn |->
                        <<"\n", " ", " ", " ", " ", Marker(b.subtag, j), " ",
                          NestedWords[j]>>]))

\* markdown_content: the blocks, a blank line between two of them.
MarkdownSource(d) ==
    Join([i \in 1..Len(d) |-> BlockSource(d[i])], <<"\n", "\n">>)

\* <tag>\n<li>..</li>\n ... </tag>
ListElement(tag, items) ==
    Element(tag, <<NL>> \o Concat([i \in 1..Len(items) |-> <<items[i], NL>>]))

\* The element markdown.markdown writes for a block.
BlockHtml(b) ==
    CASE b.kind = "para" ->
            Element("p",
                <<TextNode("a")>>
                \o Repeat(<<TextNode(" "), Element("code", <<TextNode("x")>>)>>,
                          b.ncode)
                \o (IF b.emph = "none" THEN <<>>
                    ELSE <<TextNode(" "),
                           Element(b.emph, <<TextNode("b")>>)>>))
      [] b.kind = "heading" ->
            Element(<<"h1", "h2", "h3", "h4">>[b.level], <<TextNode("t")>>)
      [] b.kind = "hr" -> Element("hr", <<>>)
      [] b.kind = "code" ->
            Element("div",
                <<Element("pre",
                     <<Element("span", <<>>),
                       Element("code", <<TextNode("x"), NL>>)>>),
                  NL>>)
      [] b.kind = "quote" ->
            Element("blockquote", <<NL, Element("p", <<TextNode("q")>>), NL>>)
      [] b.kind = "table" ->
            Element("table",
                <<NL,
                  Element("thead", <<NL,
                      Element("tr", <<NL,
                          Element("th", <<TextNode("h")>>), NL,
                          Element("th", <<TextNode("h")>>), NL>>), NL>>), NL,
                  Element("tbody", <<NL,
                      Element("tr", <<NL,
                          Element("td", <<TextNode("c")>>), NL,
                          Element("td", <<TextNode("c")>>), NL>>), NL>>), NL>>)
      [] b.kind = "list" ->
            ListElement(b.tag,
                [i \in 1..b.n |->
                    IF i = b.n /\ b.subtag # "none"
                    THEN Element("li",
                            <<TextNode(ItemWords[i]),
                              ListElement(b.subtag,
                                  [j \in 1..b.subn |->
                                      Element("li", <<TextNode(NestedWords[j])>>)]),
                              NL>>)
                    ELSE Element("li", <<TextNode(ItemWords[i])>>)])

\* BeautifulSoup(markdown.markdown(markdown_content, ...), 'html.parser')
MarkdownToHtml(d) ==
    Element("[document]",
        Join([i \in 1..Len(d) |-> <<BlockHtml(d[i])>>], <<NL>>))

\* element.get_text(): the text of the element and of its descendants.
RECURSIVE GetText(_)
GetText(e) ==
    IF e.name = "#text" THEN <<e.text>>
    ELSE Concat([i \in 1..Len(e.kids) |-> GetText(e.kids[i])])

\* str(element)
RECURSIVE ToStr(_)
ToStr(e) ==
    IF e.name = "#text" THEN <<e.text>>
    ELSE IF e.name = "hr" THEN <<"<hr/>">>
    ELSE <<"<" \o e.name \o ">">>
         \o Concat([i \in 1..Len(e.kids) |-> ToStr(e.kids[i])])
         \o <<"</" \o e.name \o ">">>

\* The descendants of e in document order, each with its parent's name.
RECURSIVE Descendants(_)
Descendants(e) ==
    Concat([i \in 1..Len(e.kids) |->
        <<[el |-> e.kids[i], parent |-> e.name]>> \o Descendants(e.kids[i])])

\* element.find_all(names)
FindAll(e, names) ==
    SelectSeq(Descendants(e), LAMBDA x : x.el.name \in names)

\* A replace that leaves the string as it is.
ReplaceNone(s, old, new) == s

\* str.replace(old, new) on tokens.
Replace(s, old, new) ==
    Concat([i \in 1..Len(s) |-> IF s[i] = old THEN new ELSE <<s[i]>>])

(***************************************************************************)
(* The flowables of a story.  A flowable is the record of the arguments   *)
(* it was constructed with; the layout of its text by reportlab is not     *)
(* part of the story builder.                                              *)
(***************************************************************************)
Paragraph(t, st) ==
    [type |-> "Paragraph", text |-> t, style |-> st, height |-> 0]

Preformatted(t, st) ==
    [type |-> "Preformatted", text |-> t, style |-> st, height |-> 0]

Spacer(h) == [type |-> "Spacer", text |-> <<>>, style |-> "", height |-> h]

Questions == {<<"Hi">>}

ModelNames == {<<"llama3-70b-8192">>}

\* MarkdownToPDFGenerator._add_header
add_header(q, m) ==
    << Paragraph(<<"AI Assistant Response">>, "CustomTitle"),
       Spacer(20),
       Paragraph(<<"<b>", "Generated:", "</b>", " ", "now">>, "CustomBody"),
       Paragraph(<<"<b>", "Model:", "</b>", " ">> \o m, "CustomBody"),
       Paragraph(<<"<b>", "Question:", "</b>", " ">> \o q, "CustomBody"),
       Spacer(20) >>

WalkedNames ==
    {"h1", "h2", "h3", "p", "pre", "code", "blockquote", "ul", "ol", "li",
     "table", "strong", "em"}

\* The bullet glyph for every list.
BulletGlyphOnly(tag) == BulletGlyph

\* bullet = "(glyph) " if element.name == 'ul' else "1. "
Bullet(tag) == IF tag = "ul" THEN BulletGlyph ELSE "1. "

\* The branch of the loop of _process_html_elements taken for one element.
ProcessElement(x) ==
    LET element == x.el
    IN  CASE element.name = "h1" ->
                <<Paragraph(GetText(element), "CustomHeading1")>>
          [] element.name = "h2" ->
                <<Paragraph(GetText(element), "CustomHeading2")>>
          [] element.name = "h3" ->
                <<Paragraph(GetText(element), "CustomHeading3")>>
          [] element.name = "p" ->
                <<Paragraph(
                    Replace(Replace(Replace(Replace(Replace(Replace(
                        ToStr(element),
                        "<p>", <<>>), "</p>", <<>>),
                        "<strong>", <<"<b>">>), "</strong>", <<"</b>">>),
                        "<em>", <<"<i>">>), "</em>", <<"</i>">>),
                    "CustomBody")>>
          [] element.name = "pre" ->
                <<Preformatted(GetText(element), "CustomCode")>>
          [] element.name = "code" /\ x.parent # "pre" ->
                <<Paragraph(<<"<font face='Courier'>">> \o GetText(element)
                                \o <<"</font>">>,
                            "CustomBody")>>
          [] element.name = "blockquote" ->
                <<Paragraph(GetText(element), "CustomQuote")>>
          [] element.name \in {"ul", "ol"} ->
                LET lis == FindAll(element, {"li"})
                IN  [i \in 1..Len(lis) |->
                        Paragraph(<<Bullet(element.name)>> \o GetText(lis[i].el),
                                  "CustomBody")]
                    \o <<Spacer(6)>>
          [] OTHER -> <<>>

\* MarkdownToPDFGenerator._process_html_elements
process_html_elements(soup) ==
    LET found == FindAll(soup, WalkedNames)
    IN  Concat([i \in 1..Len(found) |-> ProcessElement(found[i])])

\* markdown_content.split('\n\n')
RECURSIVE SplitBlank(_, _)
SplitBlank(s, cur) ==
    IF s = <<>> THEN <<cur>>
    ELSE IF Len(s) >= 2 /\ s[1] = "\n" /\ s[2] = "\n"
         THEN <<cur>> \o SplitBlank(SubSeq(s, 3, Len(s)), <<>>)
    ELSE SplitBlank(Tail(s), Append(cur, Head(s)))

\* para.strip() is not empty
NonBlank(s) == \E i \in 1..Len(s) : s[i] \notin Whitespace

\* MarkdownToPDFGenerator._process_raw_markdown
process_raw_markdown(content) ==
    LET paragraphs == SelectSeq(SplitBlank(content, <<>>), NonBlank)
    IN  [i \in 1..Len(paragraphs) |->
            Paragraph(
                Replace(Replace(Replace(Replace(paragraphs[i],
                    "**", <<"<b>">>), "**", <<"</b>">>),
                    "*", <<"<i>">>), "*", <<"</i>">>),
                "CustomBody")]

\* len(story) <= 5
FallbackThreshold == 5

\* MarkdownToPDFGenerator._build_story
build_story(d, q, m) ==
    LET withHeader == add_header(q, m)
        walked == withHeader \o process_html_elements(MarkdownToHtml(d))
    IN  IF Len(walked) <= FallbackThreshold
        THEN walked \o process_raw_markdown(MarkdownSource(d))
        ELSE walked

(***************************************************************************)
(* The rendering specification: _build_story, or the raw-text fallback     *)
(* alone, is called once on a document.                                    *)
(***************************************************************************)
InitRender ==
    /\ response = <<>>
    /\ formatted = Null
    /\ again = Null
    /\ doc \in Docs
    /\ question \in Questions
    /\ model_name \in ModelNames
    /\ story = Null
    /\ pc = "content"
    /\ Idle
    /\ env = Null

BuildStory ==
    /\ pc = "content"
    /\ story' = build_story(doc, question, model_name)
    /\ pc' = "built"
    /\ UNCHANGED <<response, formatted, again, doc, question, model_name,
                   exportVars, clientVars,
                   env>>

\* _process_raw_markdown called on the text of the document, with an empty
\* story.
ProcessRawMarkdown ==
    /\ pc = "content"
    /\ story' = process_raw_markdown(MarkdownSource(doc))
    /\ pc' = "raw"
    /\ UNCHANGED <<response, formatted, again, doc, question, model_name,
                   exportVars, clientVars,
                   env>>

NextRender == BuildStory \/ ProcessRawMarkdown

SpecRender == InitRender /\ [][NextRender]_vars

(***************************************************************************)
(* Notions the properties of the formatter are stated with.  They are      *)
(* defined on the characters of the string, not by the operators above.    *)
(***************************************************************************)
TagFree(s) == ~Contains(s, OpenTag) /\ ~Contains(s, CloseTag)

NonBlankAt(s) == {k \in 1..Len(s) : s[k] \notin Whitespace}

SetMin(S) == CHOOSE x \in S : \A y \in S : x <= y

SetMax(S) == CHOOSE x \in S : \A y \in S : x >= y

\* s without its leading and trailing whitespace.
Trimmed(s) ==
    IF NonBlankAt(s) = {} THEN <<>>
    ELSE SubSeq(s, SetMin(NonBlankAt(s)), SetMax(NonBlankAt(s)))

\* The positions at which a whitespace-separated token of s starts.
TokenStarts(s) ==
    {k \in NonBlankAt(s) : k = 1 \/ s[k - 1] \in Whitespace}

\* The delimiters of s, left to right: position and kind.
RECURSIVE TagsFrom(_, _)
TagsFrom(s, i) ==
    IF i > Len(s) THEN <<>>
    ELSE IF StartsAt(s, i, OpenTag)
         THEN <<[pos |-> i, open |-> TRUE]>> \o TagsFrom(s, i + 1)
    ELSE IF StartsAt(s, i, CloseTag)
         THEN <<[pos |-> i, open |-> FALSE]>> \o TagsFrom(s, i + 1)
    ELSE TagsFrom(s, i + 1)

TagsOf(s) == TagsFrom(s, 1)

\* s holds only well-formed, non-nested pairs: its delimiters alternate,
\* opening tag first, closing tag last.
WellFormedPairs(s) ==
    LET occ == TagsOf(s)
    IN  /\ Len(occ) % 2 = 0
        /\ \A k \in 1..Len(occ) : occ[k].open = (k % 2 = 1)

NumPairs(s) == Len(TagsOf(s)) \div 2

PairInner(s, i) ==
    LET occ == TagsOf(s)
    IN  SubSeq(s, occ[2 * i - 1].pos + Len(OpenTag), occ[2 * i].pos - 1)

PairSpan(s, i) ==
    LET occ == TagsOf(s)
    IN  SubSeq(s, occ[2 * i - 1].pos, occ[2 * i].pos + Len(CloseTag) - 1)

Before(s, p) == SubSeq(s, 1, p - 1)

After(s, p) == SubSeq(s, p + Len(OpenTag), Len(s))

\* An opening tag at p, with no delimiter before it and none after it.
LoneOpenTag(s, p) ==
    /\ StartsAt(s, p, OpenTag)
    /\ TagFree(Before(s, p))
    /\ TagFree(After(s, p))

\* An opening tag at p that no closing tag follows, after well-formed pairs.
UnterminatedOpenTag(s, p) ==
    /\ StartsAt(s, p, OpenTag)
    /\ WellFormedPairs(Before(s, p))
    /\ TagFree(After(s, p))

Processed == pc \in {"processed", "reformatted"}

(***************************************************************************)
(* C1: for every raw response, main_response holds neither <think> nor     *)
(* </think>.  (The single cleanup pass leaves a tag whose halves stood     *)
(* left and right of a removed tag.)                                       *)
(***************************************************************************)
C1_MainHasNoTag ==
    Processed => TagFree(formatted.main_response)

(***************************************************************************)
(* C2, as stated: for every response without the substring <think>,        *)
(* thinking is empty and main_response is the trimmed response.            *)
(***************************************************************************)
C2_NoOpenTagGivesTrimmed ==
    (Processed /\ ~Contains(response, OpenTag)) =>
        /\ formatted.thinking = <<>>
        /\ formatted.main_response = Trimmed(response)

(***************************************************************************)
(* C2, amended: for every response that holds neither <think> nor          *)
(* </think>, thinking is empty and main_response is the trimmed response.  *)
(***************************************************************************)
C2_NoTagGivesTrimmed ==
    (Processed /\ TagFree(response)) =>
        /\ formatted.thinking = <<>>
        /\ formatted.main_response = Trimmed(response)

C2_Witness ==
    /\ pc = "processed"
    /\ TagFree(response)
    /\ response # Trimmed(response)
    /\ response[Len(response)] \in Whitespace
    /\ formatted.main_response # <<>>

(***************************************************************************)
(* C3: for every response with n well-formed, non-nested pairs, thinking   *)
(* has exactly n elements, the i-th the untrimmed inner text of the i-th   *)
(* pair, and main_response contains none of the removed spans.             *)
(***************************************************************************)
C3_PairsExtractedAndRemoved ==
    (Processed /\ WellFormedPairs(response)) =>
        /\ Len(formatted.thinking) = NumPairs(response)
        /\ \A i \in 1..NumPairs(response) :
              /\ formatted.thinking[i] = PairInner(response, i)
              /\ ~Contains(formatted.main_response, PairSpan(response, i))

(***************************************************************************)
(* C4: formatting the main_response of a formatted response that holds no  *)
(* think tag returns the same main_response and an empty thinking list.    *)
(***************************************************************************)
C4_FormatIdempotent ==
    (pc = "reformatted" /\ TagFree(formatted.main_response)) =>
        /\ again.main_response = formatted.main_response
        /\ again.thinking = <<>>

C4_Witness ==
    /\ pc = "reformatted"
    /\ TagFree(formatted.main_response)
    /\ formatted.thinking # <<>>
    /\ formatted.main_response # <<>>
    /\ formatted.main_response # response

(***************************************************************************)
(* C5: an opening tag without a closing tag adds nothing to thinking, is   *)
(* itself removed, and all the text after it stays in main_response.       *)
(***************************************************************************)
C5_UnterminatedOpenTag ==
    Processed =>
        \A p \in 1..Len(response) :
            /\ LoneOpenTag(response, p) =>
                  /\ formatted.thinking = <<>>
                  /\ formatted.main_response =
                         Trimmed(Before(response, p) \o After(response, p))
            /\ UnterminatedOpenTag(response, p) =>
                  /\ Len(formatted.thinking) = NumPairs(Before(response, p))
                  /\ \A i \in 1..NumPairs(Before(response, p)) :
                        formatted.thinking[i] = PairInner(Before(response, p), i)

C5_Witness ==
    /\ pc = "processed"
    /\ \E p \in 1..Len(response) :
          /\ LoneOpenTag(response, p)
          /\ NonBlankAt(Before(response, p)) # {}
          /\ NonBlankAt(After(response, p)) # {}

(***************************************************************************)
(* C6: the statistics are those of the raw response: word_count its number *)
(* of whitespace-separated tokens, character_count its length; for the     *)
(* empty response both are 0 and thinking and main_response are empty.     *)
(***************************************************************************)
C6_StatisticsOfRaw ==
    Processed =>
        /\ formatted.statistics.word_count = Cardinality(TokenStarts(response))
        /\ formatted.statistics.character_count = Len(response)
        /\ response = <<>> =>
              /\ formatted.statistics.word_count = 0
              /\ formatted.statistics.character_count = 0
              /\ formatted.thinking = <<>>
              /\ formatted.main_response = <<>>

C6_Witness ==
    /\ pc = "processed"
    /\ formatted.thinking # <<>>
    /\ formatted.statistics.word_count
           > Cardinality(TokenStarts(formatted.main_response))
    /\ formatted.statistics.character_count > Len(formatted.main_response)

(***************************************************************************)
(* Notions the properties of the renderer are stated with.                 *)
(***************************************************************************)
Built == pc = "built"

HeaderLen == Len(add_header(question, model_name))

\* The story after the header elements.
Content == SubSeq(story, HeaderLen + 1, Len(story))

IsBlock(f) == f.type \in {"Paragraph", "Preformatted"}

\* The content blocks of the story (spacers are layout, not content).
ContentBlocks == SelectSeq(Content, IsBlock)

\* The story starts with the header of the call.
HeaderFirst ==
    /\ Len(story) >= HeaderLen
    /\ SubSeq(story, 1, HeaderLen) = add_header(question, model_name)

\* The segments of the main text between blank lines that are not blank.
NonBlankSegments(content) == SelectSeq(SplitBlank(content, <<>>), NonBlank)

IsListItem(f) ==
    /\ f.type = "Paragraph"
    /\ f.text # <<>>
    /\ f.text[1] \in {Bullet("ul"), Bullet("ol")}

ListItemBlocks == SelectSeq(Content, IsListItem)

\* The list item blocks written for the item whose text starts with w.
BlocksOfItem(w) ==
    {i \in 1..Len(ListItemBlocks) :
        Len(ListItemBlocks[i].text) >= 2 /\ ListItemBlocks[i].text[2] = w}

NumItems(b) == b.n + (IF b.subtag = "none" THEN 0 ELSE b.subn)

(***************************************************************************)
(* C7: for every non-blank main text the story holds at least one content  *)
(* block after the header elements.                                        *)
(***************************************************************************)
C7_StoryHasContent ==
    (Built /\ NonBlank(MarkdownSource(doc))) =>
        /\ HeaderFirst
        /\ ContentBlocks # <<>>

(***************************************************************************)
(* C8: whenever the structured walk yields no content block, the story is  *)
(* completed by the raw-text fallback: exactly one Paragraph per non-blank *)
(* segment of the main text split on blank lines, in source order.         *)
(***************************************************************************)
C8_FallbackWhenWalkIsEmpty ==
    (Built /\ SelectSeq(process_html_elements(MarkdownToHtml(doc)), IsBlock) = <<>>) =>
        /\ Len(ContentBlocks) = Len(NonBlankSegments(MarkdownSource(doc)))
        /\ \A i \in 1..Len(ContentBlocks) :
              /\ ContentBlocks[i].type = "Paragraph"
              /\ ContentBlocks[i] =
                     process_raw_markdown(NonBlankSegments(MarkdownSource(doc))[i])[1]

(***************************************************************************)
(* C9: an inline code span is rendered only inside the Paragraph of its    *)
(* paragraph: a paragraph with k inline code spans yields exactly one      *)
(* block, so a text of paragraphs yields one block per paragraph.          *)
(***************************************************************************)
C9_InlineCodeStaysInParagraph ==
    (Built /\ \A i \in 1..Len(doc) : doc[i].kind = "para") =>
        Len(ContentBlocks) = Len(doc)

(***************************************************************************)
(* C10: for every list, nested lists included, exactly one ListItem block  *)
(* is written per list item, with the bullet of the list that directly     *)
(* holds the item.                                                         *)
(***************************************************************************)
C10_OneBlockPerListItem ==
    (Built /\ Len(doc) = 1 /\ IsList(doc[1])) =>
        LET b == doc[1]
        IN  /\ Len(ListItemBlocks) = NumItems(b)
            /\ \A i \in 1..b.n :
                  /\ Cardinality(BlocksOfItem(ItemWords[i])) = 1
                  /\ \A k \in BlocksOfItem(ItemWords[i]) :
                        ListItemBlocks[k].text[1] = Bullet(b.tag)
            /\ b.subtag # "none" =>
                  \A j \in 1..b.subn :
                      /\ Cardinality(BlocksOfItem(NestedWords[j])) = 1
                      /\ \A k \in BlocksOfItem(NestedWords[j]) :
                            ListItemBlocks[k].text[1] = Bullet(b.subtag)

(***************************************************************************)
(* The blocks the description gives for headings and paragraphs.           *)
(***************************************************************************)
IsHeadingOrPlainParagraph(b) ==
    \/ b.kind = "heading" /\ b.level \in {1, 2, 3}
    \/ b.kind = "para" /\ b.ncode = 0

HeadingStyle(level) ==
    <<"CustomHeading1", "CustomHeading2", "CustomHeading3">>[level]

EmphasisMarkup(emph) ==
    CASE emph = "strong" -> <<" ", "<b>", "b", "</b>">>
      [] emph = "em" -> <<" ", "<i>", "b", "</i>">>
      [] OTHER -> <<>>

ExpectedBlock(b) ==
    IF b.kind = "heading"
    THEN [type |-> "Paragraph", text |-> <<"t">>,
          style |-> HeadingStyle(b.level), height |-> 0]
    ELSE [type |-> "Paragraph", text |-> <<"a">> \o EmphasisMarkup(b.emph),
          style |-> "CustomBody", height |-> 0]

(***************************************************************************)
(* C11: headings of level 1, 2 and 3 and paragraphs are mapped to blocks   *)
(* in source order: a heading to one Heading block of its level carrying   *)
(* its text, a paragraph to one Paragraph block that keeps its bold and    *)
(* italic spans as <b> and <i> markup.                                     *)
(***************************************************************************)
C11_HeadingsAndParagraphsInOrder ==
    (Built /\ \A i \in 1..Len(doc) : IsHeadingOrPlainParagraph(doc[i])) =>
        ContentBlocks = [i \in 1..Len(doc) |-> ExpectedBlock(doc[i])]

C11_Witness ==
    /\ Built
    /\ Len(doc) = 2
    /\ doc[1].kind = "heading" /\ doc[1].level = 1
    /\ doc[2].kind = "para" /\ doc[2].ncode = 0 /\ doc[2].emph = "strong"
    /\ Len(ContentBlocks) = 2
    /\ ContentBlocks[1].style = "CustomHeading1"
    /\ ContentBlocks[2].text = <<"a", " ", "<b>", "b", "</b>">>

(***************************************************************************)
(* The document export: MarkdownToPDFGenerator.generate_pdf and            *)
(* _create_fallback_pdf.  A question is a sequence of characters; the text *)
(* of a Paragraph is a sequence of tokens, of which the emphasis tags are  *)
(* spelled out in characters before the text is parsed.                    *)
(***************************************************************************)
Spell(t) ==
    CASE t = "<b>" -> <<"<", "b", ">">>
      [] t = "</b>" -> <<"<", "/", "b", ">">>
      [] t = "<i>" -> <<"<", "i", ">">>
      [] t = "</i>" -> <<"<", "/", "i", ">">>
      [] OTHER -> <<t>>

Flatten(text) == Concat([i \in 1..Len(text) |-> Spell(text[i])])

\* The emphasis tags of a text, left to right.
RECURSIVE MarkupTags(_, _)
MarkupTags(s, i) ==
    IF i > Len(s) THEN <<>>
    ELSE IF StartsAt(s, i, <<"<", "b", ">">>)
         THEN <<[tag |-> "b", open |-> TRUE]>> \o MarkupTags(s, i + 3)
    ELSE IF StartsAt(s, i, <<"<", "/", "b", ">">>)
         THEN <<[tag |-> "b", open |-> FALSE]>> \o MarkupTags(s, i + 4)
    ELSE IF StartsAt(s, i, <<"<", "i", ">">>)
         THEN <<[tag |-> "i", open |-> TRUE]>> \o MarkupTags(s, i + 3)
    ELSE IF StartsAt(s, i, <<"<", "/", "i", ">">>)
         THEN <<[tag |-> "i", open |-> FALSE]>> \o MarkupTags(s, i + 4)
    ELSE MarkupTags(s, i + 1)

\* Every closing tag closes the tag opened last, and no tag is left open.
RECURSIVE Nested(_, _)
Nested(tags, stack) ==
    IF tags = <<>> THEN stack = <<>>
    ELSE IF Head(tags).open
         THEN Nested(Tail(tags), <<Head(tags).tag>> \o stack)
    ELSE /\ stack # <<>>
         /\ stack[1] = Head(tags).tag
         /\ Nested(Tail(tags), Tail(stack))

\* Paragraph(text, style) parses the markup of text when it is constructed
\* and raises ValueError when a <b> or <i> is not closed or not opened; tags
\* it does not know (<code>) are ignored.
ParagraphRaises(text) == ~Nested(MarkupTags(Flatten(text), 1), <<>>)

\* Constructing the flowables of st raises.
StoryRaises(st) ==
    \E i \in 1..Len(st) :
        st[i].type = "Paragraph" /\ ParagraphRaises(st[i].text)

\* The texts generate_pdf is called with: at most one block.
ExportDocs == {<<>>} \cup {<<b>> : b \in Blocks}

\* markdown.markdown(markdown_content, ...): the document of a text.
ParseMarkdown(content) ==
    CHOOSE d \in ExportDocs : MarkdownSource(d) = content

\* io.BytesIO()
NewBuffer(owner) == [owner |-> owner, closed |-> FALSE, data |-> <<>>]

\* What doc.build(story) writes when it completes, and what it has written
\* when the layout of the story fails.
PdfBytes(build, st) ==
    << [build |-> build, part |-> "header", story |-> <<>>],
       [build |-> build, part |-> "pages", story |-> st],
       [build |-> build, part |-> "trailer", story |-> <<>>] >>

PartialBytes(build) ==
    << [build |-> build, part |-> "header", story |-> <<>>] >>

Returned(v) == [kind |-> "returned", value |-> v]

Raised(e) == [kind |-> "raised", value |-> e]

\* st.error(label), st.markdown(label), st.metric(label, data), ...
Shown(widget, label, data, file_name) ==
    [widget |-> widget, label |-> label, data |-> data,
     file_name |-> file_name]

\* The story of _create_fallback_pdf.
fallback_story(content, q, m) ==
    << Paragraph(<<"AI Assistant Response">>, "Title"),
       Spacer(20),
       Paragraph(<<"Model: ">> \o m, "Normal"),
       Paragraph(<<"Question: ">> \o q, "Normal"),
       Spacer(20),
       Paragraph(<<"Response:">>, "Heading2"),
       Paragraph(content, "Normal") >>

\* A fallback that writes into the buffer of the caller.
create_fallback_pdf_shared_buffer(content, q, m, bufs) ==
    LET st == fallback_story(content, q, m)
        data == bufs[1].data \o PdfBytes("fallback", st)
    IN  IF StoryRaises(st)
        THEN [result |-> Raised("ValueError"), buffers |-> bufs]
        ELSE [result |-> Returned(data),
              buffers |-> [bufs EXCEPT ![1] =
                              [@ EXCEPT !.closed = TRUE, !.data = data]]]

\* MarkdownToPDFGenerator._create_fallback_pdf, called with the buffers bufs
\* in existence.  The sample style sheet's paragraphs split across pages:
\* the layout of this story is taken to complete.
create_fallback_pdf(content, q, m, bufs) ==
    LET opened == Append(bufs, NewBuffer("_create_fallback_pdf"))
        buffer == Len(opened)
        st == fallback_story(content, q, m)
        data == PdfBytes("fallback", st)
    IN  IF StoryRaises(st)
        THEN [result |-> Raised("ValueError"), buffers |-> opened]
        ELSE [result |-> Returned(data),
              buffers |-> [opened EXCEPT ![buffer] =
                              [@ EXCEPT !.closed = TRUE, !.data = data]]]

\* MarkdownToPDFGenerator.generate_pdf; layoutOK says whether doc.build lays
\* the structured story out.
generate_pdf(content, q, m, layoutOK) ==
    LET buffer == NewBuffer("generate_pdf")
        st == build_story(ParseMarkdown(content), q, m)
        data == PdfBytes("structured", st)
    IN  IF ~StoryRaises(st) /\ layoutOK
        THEN [result |-> Returned(data),
              buffers |-> <<[buffer EXCEPT !.closed = TRUE, !.data = data]>>,
              ui |-> <<>>]
        ELSE LET left == IF StoryRaises(st) THEN buffer
                         ELSE [buffer EXCEPT !.data = PartialBytes("structured")]
                 fallback == create_fallback_pdf(content, q, m, <<left>>)
             IN  [result |-> fallback.result,
                  buffers |-> fallback.buffers,
                  ui |-> <<Shown("error", "Error creating PDF", <<>>, <<>>)>>]

(***************************************************************************)
(* The response section of MainChatInterface.  An element displayed by     *)
(* streamlit is the record of the call that displayed it.                  *)
(***************************************************************************)
\* question[:15]
FileNameChars == 15

Prefix(s, n) == SubSeq(s, 1, IF Len(s) < n THEN Len(s) ELSE n)

\* A file name that keeps the whole question.
text_file_name_whole_question(q, m) ==
    <<"response_">> \o m \o <<"_">> \o Replace(q, " ", <<"_">>) \o <<".txt">>

\* f"response_{model_name}_{question[:15].replace(' ', '_')}.txt"
text_file_name(q, m) ==
    <<"response_">> \o m \o <<"_">>
        \o Replace(Prefix(q, FileNameChars), " ", <<"_">>) \o <<".txt">>

\* MainChatInterface._render_thinking_sections
render_thinking_sections(thinking_blocks) ==
    Concat([i \in 1..Len(thinking_blocks) |->
        << Shown("markdown", "thinking-container", <<>>, <<>>),
           Shown("markdown", "thinking-text", Strip(thinking_blocks[i]), <<>>),
           Shown("markdown", "</div>", <<>>, <<>>) >>])

\* MainChatInterface._render_main_response
render_main_response(main_response, m) ==
    << Shown("markdown", "response-container", <<>>, <<>>),
       Shown("markdown", "Assistant", m, <<>>),
       Shown("markdown", "main_response", main_response, <<>>),
       Shown("markdown", "</div>", <<>>, <<>>) >>

\* MainChatInterface._render_pdf_download_button
render_pdf_download_button(main_response, q, m, full_response, layoutOK) ==
    LET pdf == generate_pdf(main_response, q, m, layoutOK)
    IN  [buffers |-> pdf.buffers,
         ui |-> pdf.ui \o
            (IF pdf.result.kind = "returned"
             THEN <<Shown("download_button", "Download PDF", pdf.result.value,
                          <<"AI_Response_", "now", ".pdf">>)>>
             ELSE <<Shown("error", "Error creating PDF", <<>>, <<>>),
                    Shown("download_button", "Download Text", full_response,
                          text_file_name(q, m))>>)]

\* MainChatInterface._render_copy_button
render_copy_button(full_response, clicked) ==
    <<Shown("button", "Copy Response", <<>>, <<>>)>>
        \o (IF clicked
            THEN <<Shown("success", "Response copied to session!", <<>>, <<>>)>>
            ELSE <<>>)

\* MainChatInterface._render_response_statistics
render_response_statistics(statistics, m) ==
    << Shown("metric", "Word Count", statistics.word_count, <<>>),
       Shown("metric", "Character Count", statistics.character_count, <<>>),
       Shown("metric", "Model Used", m, <<>>) >>

\* A response with or without a thinking section before its main text.
ThinkingPrefixes == {<<>>, OpenTag \o <<"x">> \o CloseTag \o <<"\n">>}

\* Questions: a short one, a short one with an unclosed <b>, and one of 22
\* characters with an unclosed <b>.
ExportQuestions ==
    { <<"H", "i">>,
      <<"<", "b", ">", "H", "i">>,
      <<"w", "h", "y", " ", "i", "s", " ", "<", "b", ">", "t", "h", "e", " ",
        "s", "k", "y", " ", "b", "l", "u", "e">> }

(***************************************************************************)
(* The export specification: generate_pdf is called on a main text, or the *)
(* response section of a response is rendered.                             *)
(***************************************************************************)
InitExport ==
    /\ doc \in ExportDocs
    /\ \E prefix \in ThinkingPrefixes : response = prefix \o MarkdownSource(doc)
    /\ question \in ExportQuestions
    /\ model_name \in ModelNames
    /\ formatted = Null
    /\ again = Null
    /\ story = Null
    /\ pc = "export"
    /\ buffers = <<>>
    /\ result = Null
    /\ ui = <<>>
    /\ session = [copied_text |-> Null]
    /\ mode = "Cloud AI"
    /\ backend = Null
    /\ sent = <<>>
    /\ env = Null

GeneratePdf ==
    /\ pc = "export"
    /\ \E layoutOK \in BOOLEAN :
          LET pdf == generate_pdf(MarkdownSource(doc), question, model_name,
                                  layoutOK)
          IN  /\ result' = pdf.result
              /\ buffers' = pdf.buffers
              /\ ui' = pdf.ui
    /\ pc' = "exported"
    /\ UNCHANGED <<response, formatted, again, doc, question, model_name,
                   story, session, clientVars,
                   env>>

\* MainChatInterface.render_response_section
RenderResponseSection ==
    /\ pc = "export"
    /\ \E layoutOK \in BOOLEAN, clicked \in BOOLEAN :
          LET formatted_response == process_response(response)
              button == render_pdf_download_button(
                            formatted_response.main_response, question,
                            model_name, response, layoutOK)
          IN  /\ formatted' = formatted_response
              /\ buffers' = button.buffers
              /\ ui' = render_thinking_sections(formatted_response.thinking)
                       \o render_main_response(
                              formatted_response.main_response, model_name)
                       \o button.ui
                       \o render_copy_button(response, clicked)
                       \o render_response_statistics(
                              formatted_response.statistics, model_name)
              /\ session' = IF clicked
                            THEN [session EXCEPT !.copied_text = response]
                            ELSE session
    /\ result' = Returned(Null)
    /\ pc' = "rendered"
    /\ UNCHANGED <<response, again, doc, question, model_name, story,
                   clientVars,
                   env>>

NextExport == GeneratePdf \/ RenderResponseSection

SpecExport == InitExport /\ [][NextExport]_vars

(***************************************************************************)
(* Notions the properties of the export are stated with.                   *)
(***************************************************************************)
Exported == pc = "exported"

Rendered == pc = "rendered"

\* generate_pdf displays its error message exactly when its structured path
\* has failed.
StructuredFailed ==
    \E i \in 1..Len(ui) :
        ui[i].widget = "error" /\ ui[i].label = "Error creating PDF"

\* The document v shows the text t.
Carries(v, t) ==
    \E i \in 1..Len(v) : \E j \in 1..Len(v[i].story) :
        /\ v[i].story[j].type = "Paragraph"
        /\ Contains(v[i].story[j].text, t)

\* v is what one build of kind b writes when it completes.
IsCompleteBuild(v, b) ==
    /\ Len(v) = 3
    /\ \A i \in 1..3 : v[i].build = b
    /\ v[1].part = "header" /\ v[2].part = "pages" /\ v[3].part = "trailer"

(***************************************************************************)
(* C12: whenever the structured path of generate_pdf fails, generate_pdf   *)
(* does not raise: it returns a non-empty fallback document that carries   *)
(* the question and the model name.                                        *)
(***************************************************************************)
C12_FallbackAlwaysReturned ==
    (Exported /\ StructuredFailed) =>
        /\ result.kind = "returned"
        /\ result.value # <<>>
        /\ Carries(result.value, question)
        /\ Carries(result.value, model_name)

(***************************************************************************)
(* C13: generate_pdf either raises or returns the bytes of exactly one     *)
(* completed build: the structured build, or the fallback build after a    *)
(* structured failure; never bytes written by a build that failed.         *)
(***************************************************************************)
C13_BytesOfOneCompletedBuild ==
    Exported =>
        \/ result.kind = "raised"
        \/ /\ result.kind = "returned"
           /\ IF StructuredFailed
              THEN IsCompleteBuild(result.value, "fallback")
              ELSE IsCompleteBuild(result.value, "structured")

C13_Witness ==
    /\ Exported
    /\ result.kind = "returned"
    /\ StructuredFailed
    /\ buffers[1].data # <<>>
    /\ IsCompleteBuild(result.value, "fallback")

(***************************************************************************)
(* C14: every buffer opened by generate_pdf or _create_fallback_pdf is     *)
(* closed when the export call exits, on every exit path.                  *)
(***************************************************************************)
C14_BuffersClosedOnExit ==
    (Exported \/ Rendered) =>
        \A i \in 1..Len(buffers) : buffers[i].closed

\* The download buttons displayed, and the positions of an element.
Downloads == SelectSeq(ui, LAMBDA w : w.widget = "download_button")

Positions(widget, label) ==
    {i \in 1..Len(ui) : ui[i].widget = widget /\ ui[i].label = label}

\* The export of the rendered response returned bytes: the buffer created
\* last was filled and closed.
ExportReturnedBytes ==
    /\ buffers # <<>>
    /\ buffers[Len(buffers)].closed
    /\ buffers[Len(buffers)].data # <<>>

\* response_<model>_<first 15 characters of the question, '_' for ' '>.txt
ExpectedTextName ==
    <<"response_">> \o model_name \o <<"_">>
        \o [i \in 1..(IF Len(question) < 15 THEN Len(question) ELSE 15) |->
               IF question[i] = " " THEN "_" ELSE question[i]]
        \o <<".txt">>

(***************************************************************************)
(* C15: a failure of the export never aborts the rendering of a response:  *)
(* exactly one download is offered, the PDF when generate_pdf returned     *)
(* bytes and otherwise a .txt of the full raw response named               *)
(* response_<model>_<first 15 characters of the question with spaces       *)
(* replaced by underscores>.txt; the copy button and the statistics are    *)
(* displayed after it in both cases.                                       *)
(***************************************************************************)
C15_OneDownloadAndRenderingCompletes ==
    Rendered =>
        /\ result.kind = "returned"
        /\ Len(Downloads) = 1
        /\ IF ExportReturnedBytes
           THEN /\ Downloads[1].label = "Download PDF"
                /\ Downloads[1].data = buffers[Len(buffers)].data
           ELSE /\ Downloads[1].label = "Download Text"
                /\ Downloads[1].data = response
                /\ Downloads[1].file_name = ExpectedTextName
        /\ \E d \in 1..Len(ui), c \in Positions("button", "Copy Response"),
              s \in Positions("metric", "Word Count") :
              /\ ui[d].widget = "download_button"
              /\ d < c
              /\ c < s
              /\ ui[s].data = formatted.statistics.word_count

C15_Witness ==
    /\ Rendered
    /\ ~ExportReturnedBytes
    /\ Len(question) > 15
    /\ Len(Downloads) = 1
    /\ Downloads[1].label = "Download Text"
    /\ Positions("button", "Copy Response") # {}

(***************************************************************************)
(* The backend client (util/api_client.py).  The backend's answer to the   *)
(* one HTTP request of a call is an input of the call: the exception       *)
(* requests raises, or the status code and the body of the reply.  A JSON  *)
(* value carries its Python type; strings are sequences of characters.     *)
(***************************************************************************)
JStr(s) == [type |-> "str", v |-> s]

JList(l) == [type |-> "list", v |-> l]

JDict(d) == [type |-> "dict", v |-> d]

\* str(x) of a value that is not a string.
PyStr(x) == JStr(<<"str", x>>)

\* The classes of an exception: its own class and its base classes.
Bases(class) ==
    CASE class = "ConnectionError" ->
            {"ConnectionError", "RequestException", "Exception"}
      [] class = "ConnectTimeout" ->
            {"ConnectTimeout", "ConnectionError", "Timeout",
             "RequestException", "Exception"}
      [] class = "ReadTimeout" ->
            {"ReadTimeout", "Timeout", "RequestException", "Exception"}
      [] class = "HTTPError" ->
            {"HTTPError", "RequestException", "Exception"}
      [] class = "TooManyRedirects" ->
            {"TooManyRedirects", "RequestException", "Exception"}
      [] class = "JSONDecodeError" ->
            {"JSONDecodeError", "InvalidJSONError", "RequestException",
             "Exception"}
      [] OTHER -> {class, "Exception"}

isinstance(e, class) == class \in Bases(e.class)

Exception(class) == [class |-> class, response |-> Null]

\* requests.exceptions.HTTPError(response=response)
HTTPError(reply) == [class |-> "HTTPError", response |-> reply]

\* The exceptions requests.get / requests.post raise.
RequestErrors ==
    {"ConnectionError", "ConnectTimeout", "ReadTimeout", "TooManyRedirects",
     "RuntimeError"}

StatusCodes == {200, 204, 404, 422, 500, 503}

\* Detail texts: two that hold the word model, in lower and in upper case,
\* and one that does not.
Details ==
    { <<"n", "o", " ", "m", "o", "d", "e", "l">>,
      <<"M", "O", "D", "E", "L", "?">>,
      <<"b", "o", "o", "m">> }

ServerModels ==
    [cloud_models |-> JList(<<"qwen/qwen3-32b", "llama3-70b-8192">>),
     local_models |-> JList(<<"qwen3:0.6b">>)]

\* The JSON values of a body.
JsonValues ==
    {JDict([output |-> JStr(<<"o", "k">>)]),
     JDict([output |-> JList(<<>>)]),
     JDict([status |-> JStr(<<"h", "e", "a", "l", "t", "h", "y">>)]),
     JDict([detail |-> JList(<<>>)]),
     JDict(ServerModels),
     JDict([cloud_models |-> ServerModels.cloud_models]),
     JList(<<>>)}
        \cup {JDict([detail |-> JStr(d)]) : d \in Details}

\* A body is JSON text or it is not.
Bodies ==
    {[json |-> TRUE, value |-> v] : v \in JsonValues}
        \cup {[json |-> FALSE, value |-> Null]}

Replies ==
    {[kind |-> "exception", class |-> c, status_code |-> 0, body |-> Null] :
        c \in RequestErrors}
    \cup {[kind |-> "response", class |-> "", status_code |-> s, body |-> b] :
            s \in StatusCodes, b \in Bodies}

\* str.lower() on the characters of the detail texts.
LowerChar(c) ==
    CASE c = "M" -> "m" [] c = "O" -> "o" [] c = "D" -> "d"
      [] c = "E" -> "e" [] c = "L" -> "l" [] OTHER -> c

\* A lower() that keeps the case.
LowerNone(s) == s

Lower(s) == [i \in 1..Len(s) |-> LowerChar(s[i])]

\* response.json(): the value, or the exception it raises.
Json(reply) ==
    IF reply.body.json THEN Returned(reply.body.value)
    ELSE Raised(Exception("JSONDecodeError"))

\* e.response.json().get('detail', 'Unknown error')
GetDetail(reply) ==
    LET parsed == Json(reply)
    IN  IF parsed.kind = "raised" THEN parsed
        ELSE IF parsed.value.type # "dict"
             THEN Raised(Exception("AttributeError"))
        ELSE IF "detail" \in DOMAIN parsed.value.v
             THEN Returned(parsed.value.v.detail)
        ELSE Returned(JStr(<<"Unknown error">>))

\* BaseAPIClient._get_fallback_models
get_fallback_models ==
    JDict([cloud_models |->
              JList(<<"qwen/qwen3-32b", "qwen-qwq-32b", "llama3-70b-8192",
                      "llama-3.1-8b-instant", "compound-beta", "gemma2-9b-it",
                      "mistral-saba-24b">>),
           local_models |-> JList(<<"qwen3:0.6b", "deepseek-r1:1.5b">>)])

None == [type |-> "NoneType", v |-> Null]

\* A _handle_api_response without str(...): the value as it was received.
handle_api_response_unconverted(response_data) ==
    IF response_data.type = "dict" /\ "output" \in DOMAIN response_data.v
    THEN response_data.v.output
    ELSE response_data

\* BaseAPIClient._handle_api_response
handle_api_response(response_data) ==
    IF response_data.type = "dict" /\ "output" \in DOMAIN response_data.v
    THEN LET output == response_data.v.output
         IN  IF output.type = "str" THEN output ELSE PyStr(output)
    ELSE PyStr(response_data)

\* A handler that displayed messages and returned, or that raised exc.
Handled(messages) == [ok |-> TRUE, exc |-> Exception("none"), ui |-> messages]

Escaped(exc) == [ok |-> FALSE, exc |-> exc, ui |-> <<>>]

\* BaseAPIClient._handle_request_errors, the branch of an HTTPError.
http_error_branch(reply) ==
    IF reply.status_code = 500
    THEN LET error_detail == GetDetail(reply)
         IN  IF error_detail.kind = "raised" THEN Escaped(error_detail.value)
             ELSE Handled(<<Shown("error", "Server error: ",
                                  error_detail.value, <<>>)>>)
    ELSE Handled(<<Shown("error", "HTTP error: ", reply.status_code, <<>>)>>)

\* BaseAPIClient._handle_request_errors
handle_request_errors(e) ==
    IF isinstance(e, "ConnectionError")
    THEN Handled(<<Shown("error", "Connection failed", <<>>, <<>>)>>)
    ELSE IF isinstance(e, "Timeout")
    THEN Handled(<<Shown("error", "Request timed out", <<>>, <<>>)>>)
    ELSE IF isinstance(e, "HTTPError") THEN http_error_branch(e.response)
    ELSE IF isinstance(e, "RequestException")
    THEN Handled(<<Shown("error", "Request failed: ", e.class, <<>>)>>)
    ELSE Handled(<<Shown("error", "An unexpected error occurred: ", e.class,
                         <<>>)>>)

\* LocalAPIClient.get_response, the body of `except HTTPError`.
local_http_error_branch(reply, m) ==
    IF reply.status_code = 500
    THEN LET error_detail == GetDetail(reply)
         IN  IF error_detail.kind = "raised" THEN Escaped(error_detail.value)
             ELSE IF error_detail.value.type # "str"
                  THEN Escaped(Exception("AttributeError"))
             ELSE IF Contains(Lower(error_detail.value.v),
                              <<"m", "o", "d", "e", "l">>)
                  THEN Handled(<<Shown("error", "Model error: ",
                                       error_detail.value, <<>>),
                                 Shown("info", "ollama pull", m, <<>>)>>)
             ELSE Handled(<<Shown("error", "Server error: ",
                                  error_detail.value, <<>>)>>)
    ELSE Handled(<<Shown("error", "HTTP error: ", reply.status_code, <<>>)>>)

\* The try body of get_response: requests.post(...), raise_for_status(),
\* _handle_api_response(response.json()).
post_and_parse(reply) ==
    IF reply.kind = "exception" THEN Raised(Exception(reply.class))
    ELSE IF reply.status_code >= 400 /\ reply.status_code < 600
         THEN Raised(HTTPError(reply))
    ELSE LET parsed == Json(reply)
         IN  IF parsed.kind = "raised" THEN parsed
             ELSE Returned(handle_api_response(parsed.value))

\* What get_response does once its handler is done.
AfterHandler(handler) ==
    IF handler.ok THEN [result |-> Returned(None), ui |-> handler.ui]
    ELSE [result |-> Raised(handler.exc), ui |-> handler.ui]

\* CloudAPIClient.get_response
cloud_get_response(input_text, m, reply) ==
    LET answer == post_and_parse(reply)
    IN  IF answer.kind = "returned" THEN [result |-> answer, ui |-> <<>>]
        ELSE AfterHandler(handle_request_errors(answer.value))

\* LocalAPIClient.get_response
local_get_response(input_text, m, reply) ==
    LET answer == post_and_parse(reply)
    IN  IF answer.kind = "returned" THEN [result |-> answer, ui |-> <<>>]
        ELSE IF isinstance(answer.value, "HTTPError")
             THEN AfterHandler(local_http_error_branch(reply, m))
        ELSE AfterHandler(handle_request_errors(answer.value))

\* A health check that accepts every status below 400.
check_server_status_not_error(reply) ==
    reply.kind = "response" /\ reply.status_code < 400

\* BaseAPIClient.check_server_status
check_server_status(reply) ==
    reply.kind = "response" /\ reply.status_code = 200

\* BaseAPIClient.get_available_models
get_available_models(reply) ==
    IF reply.kind = "response" /\ reply.status_code = 200
    THEN LET parsed == Json(reply)
         IN  IF parsed.kind = "raised" THEN get_fallback_models
             ELSE parsed.value
    ELSE get_fallback_models

\* The request of a call: method, path, JSON body and timeout.
HttpRequest(method, path, body, timeout) ==
    [method |-> method, path |-> path, json |-> body, timeout |-> timeout]

ChatBody(input_text, m) == [input |-> [question |-> input_text, model |-> m]]

ClientModels == {<<"llama3-70b-8192">>, <<"qwen3:0.6b">>}

Modes == {"Cloud AI", "Local AI"}

(***************************************************************************)
(* The client specification: one call of get_response (on the client of    *)
(* the selected mode), of check_server_status or of get_available_models,  *)
(* answered by the backend in one of the ways of Replies.                  *)
(***************************************************************************)
InitClient ==
    /\ response = <<>>
    /\ formatted = Null
    /\ again = Null
    /\ doc = <<>>
    /\ question = <<"H", "i">>
    /\ model_name \in ClientModels
    /\ story = Null
    /\ pc = "client"
    /\ buffers = <<>>
    /\ result = Null
    /\ ui = <<>>
    /\ session = Null
    /\ mode \in Modes
    /\ backend \in Replies
    /\ sent = <<>>
    /\ env = Null

\* ApplicationController._get_api_client(mode).get_response(...)
GetResponse ==
    /\ pc = "client"
    /\ LET call == IF mode = "Cloud AI"
                   THEN cloud_get_response(question, model_name, backend)
                   ELSE local_get_response(question, model_name, backend)
       IN  /\ result' = call.result
           /\ ui' = call.ui
    /\ sent' = Append(sent,
                  IF mode = "Cloud AI"
                  THEN HttpRequest("POST", "/chat/invoke",
                                   ChatBody(question, model_name), 60)
                  ELSE HttpRequest("POST", "/local_chat/invoke",
                                   ChatBody(question, model_name), 120))
    /\ pc' = "answered"
    /\ UNCHANGED <<response, formatted, again, doc, question, model_name,
                   story, buffers, session, mode, backend,
                   env>>

CheckServerStatus ==
    /\ pc = "client"
    /\ result' = Returned(check_server_status(backend))
    /\ sent' = Append(sent, HttpRequest("GET", "/health", Null, 5))
    /\ pc' = "checked"
    /\ UNCHANGED <<response, formatted, again, doc, question, model_name,
                   story, buffers, ui, session, mode, backend,
                   env>>

GetAvailableModels ==
    /\ pc = "client"
    /\ result' = Returned(get_available_models(backend))
    /\ sent' = Append(sent, HttpRequest("GET", "/models", Null, 10))
    /\ pc' = "listed"
    /\ UNCHANGED <<response, formatted, again, doc, question, model_name,
                   story, buffers, ui, session, mode, backend,
                   env>>

NextClient == GetResponse \/ CheckServerStatus \/ GetAvailableModels

SpecClient == InitClient /\ [][NextClient]_vars

(***************************************************************************)
(* Notions the properties of the client are stated with.                   *)
(***************************************************************************)
Answered == pc = "answered"

Checked == pc = "checked"

Listed == pc = "listed"

Success == backend.kind = "response" /\ backend.status_code \in 200..299

\* The call of get_response failed: no reply, a reply that is not 2xx, or
\* a 2xx reply whose body cannot be read.
CallFailed == ~Success \/ ~backend.body.json

ErrorMessages == SelectSeq(ui, LAMBDA w : w.widget = "error")

Hints == SelectSeq(ui, LAMBDA w : w.widget = "info")

(***************************************************************************)
(* C16: every failure of the backend call of get_response, cloud or local, *)
(* is recovered inside the client: get_response returns None after         *)
(* displaying a message, and no exception escapes it.                      *)
(***************************************************************************)
C16_FailuresRecoveredInClient ==
    (Answered /\ CallFailed) =>
        /\ result.kind = "returned"
        /\ result.value = None
        /\ ErrorMessages # <<>>

(***************************************************************************)
(* C17: check_server_status never raises, and returns true exactly when    *)
(* GET /health completes with status 200.                                  *)
(***************************************************************************)
C17_HealthyIffStatus200 ==
    Checked =>
        /\ result.kind = "returned"
        /\ result.value \in BOOLEAN
        /\ result.value <=>
              (backend.kind = "response" /\ backend.status_code = 200)

C17_Witness ==
    /\ Checked
    /\ backend.kind = "response"
    /\ backend.status_code = 200
    /\ result = [kind |-> "returned", value |-> TRUE]

\* v is a record that holds a cloud_models list and a local_models list.
HoldsBothLists(v) ==
    /\ v.type = "dict"
    /\ {"cloud_models", "local_models"} \subseteq DOMAIN v.v
    /\ v.v.cloud_models.type = "list"
    /\ v.v.local_models.type = "list"

\* The fixed lists of the client.
FixedFallbackLists ==
    [type |-> "dict",
     v |-> [cloud_models |->
                [type |-> "list",
                 v |-> <<"qwen/qwen3-32b", "qwen-qwq-32b", "llama3-70b-8192",
                         "llama-3.1-8b-instant", "compound-beta",
                         "gemma2-9b-it", "mistral-saba-24b">>],
            local_models |->
                [type |-> "list", v |-> <<"qwen3:0.6b", "deepseek-r1:1.5b">>]]]

\* GET /models failed: an exception, a status that is not 200, or a body
\* that cannot be parsed.
ListingFailed ==
    \/ backend.kind = "exception"
    \/ backend.status_code # 200
    \/ ~backend.body.json

(***************************************************************************)
(* C18: get_available_models never raises and always returns a record      *)
(* that holds both a cloud_models list and a local_models list: the        *)
(* server's lists when GET /models succeeds, the fixed fallback lists on   *)
(* any failure.                                                            *)
(***************************************************************************)
C18_AlwaysBothModelLists ==
    Listed =>
        /\ result.kind = "returned"
        /\ HoldsBothLists(result.value)
        /\ IF ListingFailed
           THEN result.value = FixedFallbackLists
           ELSE result.value = backend.body.value

\* The category of an error message.
Category(w) ==
    CASE w.label = "Connection failed" -> "connection"
      [] w.label = "Request timed out" -> "timeout"
      [] w.label \in {"Server error: ", "Model error: ", "HTTP error: "} ->
            "server"
      [] OTHER -> "generic"

\* The category the kind of failure of the call asks for.
FailureCategory ==
    IF backend.kind = "exception"
    THEN CASE backend.class = "ConnectionError" -> "connection"
           [] backend.class \in {"ConnectTimeout", "ReadTimeout"} -> "timeout"
           [] OTHER -> "generic"
    ELSE IF ~Success THEN "server"
    ELSE "generic"

(***************************************************************************)
(* C19: for every failed call of get_response exactly one error message is *)
(* displayed, in the category of the kind of failure: connection failed    *)
(* for a connectivity failure, timed out for every timeout (a timeout      *)
(* while connecting included), a server or HTTP error for a status that    *)
(* is not 2xx, and a generic error for anything else.                      *)
(***************************************************************************)
C19_OneMessageInTheCategoryOfTheFailure ==
    (Answered /\ CallFailed) =>
        /\ Len(ErrorMessages) = 1
        /\ Category(ErrorMessages[1]) = FailureCategory

\* The reply is not 2xx and its body is a JSON object with a string detail.
HasDetail ==
    /\ backend.kind = "response"
    /\ ~Success
    /\ backend.body.json
    /\ backend.body.value.type = "dict"
    /\ "detail" \in DOMAIN backend.body.value.v
    /\ backend.body.value.v.detail.type = "str"

Detail == backend.body.value.v.detail

\* The text holds the word model, in lower or upper case letters.
MentionsModel(text) ==
    \E i \in 1..(Len(text) - 4) :
        \A k \in 1..5 :
            text[i + k - 1] \in {<<"m", "o", "d", "e", "l">>[k],
                                 <<"M", "O", "D", "E", "L">>[k]}

\* An error message displays the detail after its label.
DetailDisplayed ==
    \E i \in 1..Len(ErrorMessages) :
        /\ ErrorMessages[i].label \in {"Server error: ", "Model error: "}
        /\ ErrorMessages[i].data = Detail

HintDisplayed ==
    \E i \in 1..Len(Hints) :
        Hints[i].label = "ollama pull" /\ Hints[i].data = model_name

(***************************************************************************)
(* C20 as stated: for every reply that is not 2xx and carries a detail,    *)
(* whatever its status code, the message displayed contains the detail; in *)
(* local mode the installation hint naming the selected model is displayed *)
(* in addition when the detail mentions a model; in cloud mode no hint is  *)
(* displayed.                                                              *)
(***************************************************************************)
C20_DetailShownForEveryStatus ==
    Answered =>
        /\ HasDetail => DetailDisplayed
        /\ (HasDetail /\ mode = "Local AI" /\ MentionsModel(Detail.v)) =>
              HintDisplayed
        /\ mode = "Cloud AI" => Hints = <<>>

(***************************************************************************)
(* C20, amended: for every reply of status 500 that carries a detail the   *)
(* message displayed contains the detail; for every other status that is   *)
(* not 2xx the message is the HTTP error of that status, without the       *)
(* detail.  In local mode the installation hint naming the selected model  *)
(* is displayed exactly when the reply has status 500 and its detail holds *)
(* the word model in any letter case; in cloud mode no hint is displayed.  *)
(***************************************************************************)
C20_DetailShownForStatus500 ==
    Answered =>
        /\ (HasDetail /\ backend.status_code = 500) =>
              /\ result = [kind |-> "returned", value |-> None]
              /\ Len(ErrorMessages) = 1
              /\ DetailDisplayed
        /\ (HasDetail /\ backend.status_code # 500) =>
              /\ result = [kind |-> "returned", value |-> None]
              /\ Len(ErrorMessages) = 1
              /\ ErrorMessages[1].label = "HTTP error: "
              /\ ErrorMessages[1].data = backend.status_code
        /\ mode = "Local AI" =>
              (HintDisplayed <=>
                  /\ HasDetail
                  /\ backend.status_code = 500
                  /\ MentionsModel(Detail.v))
        /\ mode = "Cloud AI" => Hints = <<>>

C20_Witness ==
    /\ Answered
    /\ mode = "Local AI"
    /\ HasDetail
    /\ backend.status_code = 500
    /\ Detail.v = <<"M", "O", "D", "E", "L", "?">>
    /\ HintDisplayed
    /\ DetailDisplayed

(***************************************************************************)
(* C30.  The fragments a left-to-right reading of the delimiters gives: an  *)
(* opening tag opens a fragment when none is open, the next closing tag     *)
(* ends it, opening tags inside an open fragment belong to its text, and a  *)
(* closing tag outside a fragment is passed over.                          *)
(***************************************************************************)
RECURSIVE FragmentsOfTags(_, _, _, _)
FragmentsOfTags(s, occ, k, opened) ==
    IF k > Len(occ) THEN <<>>
    ELSE IF occ[k].open
         THEN FragmentsOfTags(s, occ, k + 1,
                              IF opened = 0 THEN occ[k].pos ELSE opened)
    ELSE IF opened = 0 THEN FragmentsOfTags(s, occ, k + 1, 0)
    ELSE <<SubSeq(s, opened + Len(OpenTag), occ[k].pos - 1)>>
         \o FragmentsOfTags(s, occ, k + 1, 0)

LeftmostFragments(s) == FragmentsOfTags(s, TagsOf(s), 1, 0)

(***************************************************************************)
(* C30: for every raw response, no thinking fragment returned by           *)
(* format_response contains </think>: each fragment ends at the first      *)
(* closing tag after its opening tag (it may contain <think>), and the     *)
(* fragments are exactly the leftmost non-overlapping matches.             *)
(***************************************************************************)
C30_FragmentsEndAtFirstClosingTag ==
    Processed =>
        /\ \A i \in 1..Len(formatted.thinking) :
              ~Contains(formatted.thinking[i], CloseTag)
        /\ formatted.thinking = LeftmostFragments(response)

C30_Witness ==
    /\ pc = "processed"
    /\ \E i \in 1..Len(formatted.thinking) :
          Contains(formatted.thinking[i], OpenTag)
    /\ \E p \in 1..Len(response) :
          /\ StartsAt(response, p, CloseTag)
          /\ FindFrom(response, p + 1, CloseTag) # 0

(***************************************************************************)
(* C24.  The prefix the description gives for the items of a list, and     *)
(* the block of an item with that prefix.                                  *)
(***************************************************************************)
ExpectedPrefix(tag) ==
    CASE tag = "ol" -> "1. "
      [] tag = "ul" -> BulletGlyph

ItemBlock(tag, w) == Paragraph(<<ExpectedPrefix(tag), w>>, "CustomBody")

\* A list item block with the prefix of the list starts with the word w (the
\* text of an item that holds a nested list goes on with the nested items).
PrefixedItem(tag, w) ==
    \E k \in BlocksOfItem(w) : ListItemBlocks[k].text[1] = ExpectedPrefix(tag)

(***************************************************************************)
(* C24: every item of an ordered list is written with the prefix "1. ",    *)
(* whatever its position, and every item of an unordered list with the     *)
(* bullet glyph; a list without nested lists yields exactly these blocks,  *)
(* in the order of its items.                                              *)
(***************************************************************************)
C24_OrderedItemsAllPrefixedOne ==
    Built =>
        /\ \A i \in 1..Len(doc) :
              IsList(doc[i]) =>
                  /\ \A n \in 1..doc[i].n :
                        PrefixedItem(doc[i].tag, ItemWords[n])
                  /\ doc[i].subtag # "none" =>
                        \A j \in 1..doc[i].subn :
                            PrefixedItem(doc[i].subtag, NestedWords[j])
        /\ (Len(doc) = 1 /\ IsList(doc[1]) /\ doc[1].subtag = "none") =>
              ListItemBlocks =
                  [n \in 1..doc[1].n |-> ItemBlock(doc[1].tag, ItemWords[n])]

C24_Witness ==
    /\ Built
    /\ Len(doc) = 1
    /\ IsList(doc[1])
    /\ doc[1].tag = "ol"
    /\ doc[1].subtag = "none"
    /\ doc[1].n >= 2
    /\ Len(ListItemBlocks) >= 2
    /\ ListItemBlocks[2].text = <<"1. ", ItemWords[2]>>

(***************************************************************************)
(* C25: in the raw-text fallback every pair of ** markers becomes a bold   *)
(* span, opening tag then closing tag, and every remaining pair of single  *)
(* * markers an italic span, so that every opening tag written has its     *)
(* closing tag.                                                            *)
(***************************************************************************)
C25_FallbackMarkupBalanced ==
    pc = "raw" =>
        \A i \in 1..Len(story) :
            /\ Nested(MarkupTags(Flatten(story[i].text), 1), <<>>)
            /\ \A k \in 1..Len(story[i].text) :
                  story[i].text[k] \notin {"**", "*"}

(***************************************************************************)
(* C22.  The request the description gives for a mode, and the envelope of *)
(* a reply that was read.                                                  *)
(***************************************************************************)
ExpectedRequest ==
    [method |-> "POST",
     path |-> IF mode = "Cloud AI" THEN "/chat/invoke" ELSE "/local_chat/invoke",
     json |-> [input |-> [question |-> question, model |-> model_name]],
     timeout |-> IF mode = "Cloud AI" THEN 60 ELSE 120]

Envelope == backend.body.value

HasOutput == Envelope.type = "dict" /\ "output" \in DOMAIN Envelope.v

(***************************************************************************)
(* C22: the selected mode alone decides the backend call: "Cloud AI" posts *)
(* to /chat/invoke with a timeout of 60 seconds, any other mode to         *)
(* /local_chat/invoke with 120 seconds, both with the body                 *)
(* {input: {question, model}}; on a 2xx reply (whose body is read as JSON) *)
(* get_response returns a string: the output field of the envelope when    *)
(* present, the stringified body otherwise.                                *)
(***************************************************************************)
C22_ModeDecidesCallAndStringReturned ==
    Answered =>
        /\ sent = <<ExpectedRequest>>
        /\ ~CallFailed =>
              /\ result.kind = "returned"
              /\ result.value.type = "str"
              /\ ui = <<>>
              /\ (HasOutput /\ Envelope.v.output.type = "str") =>
                    result.value = Envelope.v.output
              /\ (HasOutput /\ Envelope.v.output.type # "str") =>
                    result.value = PyStr(Envelope.v.output)
              /\ ~HasOutput => result.value = PyStr(Envelope)

C22_Witness ==
    /\ Answered
    /\ mode = "Local AI"
    /\ sent[1].timeout = 120
    /\ backend.status_code = 204
    /\ ~CallFailed
    /\ ~HasOutput
    /\ result.value = PyStr(Envelope)

(***************************************************************************)
(* The backend (app.py).  A request is the JSON body that arrives at one   *)
(* of the two chat routes; env holds the route, the body, whether          *)
(* GROQ_API_KEY is set in the environment of the server process, and what  *)
(* the model call does (the text it returns or the exception it raises).   *)
(* The answer is the status code and the JSON body FastAPI sends.          *)
(***************************************************************************)
EmptyDict == [k \in {} |-> Null]

\* fastapi.HTTPException(status_code=..., detail=...)
HTTPException(status_code, detail) ==
    [class |-> "HTTPException", status_code |-> status_code, detail |-> detail]

JSONResponse(status_code, content) ==
    [status_code |-> status_code, body |-> content]

\* d.get(key, default)
dict_get(d, key, default) ==
    IF d.type # "dict" THEN Raised(Exception("AttributeError"))
    ELSE IF key \in DOMAIN d.v THEN Returned(d.v[key])
    ELSE Returned(default)

\* ChatInput(question=..., model=...): both fields are validated as str.
ChatInput(q, m) ==
    IF q.type = "str" /\ m.type = "str"
    THEN Returned([question |-> q, model |-> m])
    ELSE Raised(Exception("ValidationError"))

\* LangchainAPIApp._create_groq_llm
create_groq_llm(m, groq_api_key) ==
    IF ~groq_api_key
    THEN Raised(HTTPException(500,
             JStr(<<"GROQ_API_KEY not found in environment variables">>)))
    ELSE Returned("ChatGroq")

\* LangchainAPIApp._create_local_llm
create_local_llm(m) == Returned("OllamaLLM")

\* except Exception as e: raise HTTPException(500, f"Error generating ...")
generating_error(exc) ==
    Raised(HTTPException(500,
               JStr(<<"Error generating response: ", PyStr(exc)>>)))

\* LangchainAPIApp.chat_endpoint
chat_endpoint(chat_input, e) ==
    LET groq_llm == create_groq_llm(chat_input.model, e.groq_api_key)
    IN  IF groq_llm.kind = "raised" THEN generating_error(groq_llm.value)
        ELSE IF e.llm.kind = "raised" THEN generating_error(e.llm.value)
        ELSE Returned(JDict([output |-> e.llm.value]))

\* LangchainAPIApp.local_chat_endpoint
local_chat_endpoint(chat_input, e) ==
    LET local_llm == create_local_llm(chat_input.model)
    IN  IF local_llm.kind = "raised" THEN generating_error(local_llm.value)
        ELSE IF e.llm.kind = "raised" THEN generating_error(e.llm.value)
        ELSE Returned(JDict([output |-> e.llm.value]))

CloudDefaultModel == JStr(<<"llama3-70b-8192">>)

LocalDefaultModel == JStr(<<"qwen3:0.6b">>)

\* The try body of both routes up to the ChatInput.
chat_input_of(request, default_model) ==
    LET input_data == dict_get(request, "input", JDict(EmptyDict))
    IN  IF input_data.kind = "raised" THEN input_data
        ELSE LET q == dict_get(input_data.value, "question", JStr(<<>>))
                 m == dict_get(input_data.value, "model", default_model)
             IN  IF q.kind = "raised" THEN q
                 ELSE IF m.kind = "raised" THEN m
                 ELSE ChatInput(q.value, m.value)

\* except Exception as e: raise HTTPException(status_code=500, detail=str(e))
route_error(exc) == Raised(HTTPException(500, PyStr(exc)))

\* chat_invoke, the handler of POST /chat/invoke
chat_invoke(request, e) ==
    LET chat_input == chat_input_of(request, CloudDefaultModel)
    IN  IF chat_input.kind = "raised" THEN route_error(chat_input.value)
        ELSE LET answer == chat_endpoint(chat_input.value, e)
             IN  IF answer.kind = "raised" THEN route_error(answer.value)
                 ELSE answer

\* local_chat_invoke, the handler of POST /local_chat/invoke
local_chat_invoke(request, e) ==
    LET chat_input == chat_input_of(request, LocalDefaultModel)
    IN  IF chat_input.kind = "raised" THEN route_error(chat_input.value)
        ELSE LET answer == local_chat_endpoint(chat_input.value, e)
             IN  IF answer.kind = "raised" THEN route_error(answer.value)
                 ELSE answer

\* The parameter `request: dict` is the JSON body: FastAPI answers a body
\* that is not a JSON object with status 422 and a list of validation
\* errors as detail, without calling the handler.
BodyIsDict(body) == body.json /\ body.value.type = "dict"

RequestValidationError ==
    JSONResponse(422, JDict([detail |-> JList(<<"dict_type">>)]))

\* What FastAPI sends for the outcome of a handler: the returned dictionary
\* with status 200, or the status and detail of the HTTPException.
Send(outcome) ==
    IF outcome.kind = "raised"
    THEN JSONResponse(outcome.value.status_code,
                      JDict([detail |-> outcome.value.detail]))
    ELSE JSONResponse(200, outcome.value)

BackendRoutes == {"/chat/invoke", "/local_chat/invoke"}

RequestQuestions == {JStr(<<"H", "i">>), JList(<<>>)}

RequestModels == {JStr(<<"gemma2-9b-it">>)}

\* The input objects of a request: with and without question and model.
RequestInputs ==
    {JDict([question |-> q, model |-> m]) :
        q \in RequestQuestions, m \in RequestModels}
    \cup {JDict([question |-> q]) : q \in RequestQuestions}
    \cup {JDict([model |-> m]) : m \in RequestModels}
    \cup {JDict(EmptyDict), JList(<<>>), None}

RequestBodies ==
    {[json |-> TRUE, value |-> JDict([input |-> i])] : i \in RequestInputs}
    \cup {[json |-> TRUE, value |-> JDict(EmptyDict)],
          [json |-> TRUE, value |-> JList(<<>>)],
          [json |-> FALSE, value |-> Null]}

\* chain.ainvoke: the text of the model, or the exception of the provider.
ModelCalls ==
    {Returned(JStr(<<"o", "k">>)), Returned(JStr(<<>>)),
     Raised(Exception("APIConnectionError")),
     Raised(Exception("ResponseError"))}

ServerEnvs ==
    [route : BackendRoutes, request : RequestBodies,
     groq_api_key : BOOLEAN, llm : ModelCalls]

(***************************************************************************)
(* The backend specification: one request arrives at one of the two chat   *)
(* routes and is answered.                                                 *)
(***************************************************************************)
InitBackend ==
    /\ response = <<>>
    /\ formatted = Null
    /\ again = Null
    /\ doc = <<>>
    /\ question = <<>>
    /\ model_name = <<>>
    /\ story = Null
    /\ pc = "request"
    /\ Idle
    /\ env \in ServerEnvs

ChatInvoke ==
    /\ pc = "request"
    /\ env.route = "/chat/invoke"
    /\ result' = IF BodyIsDict(env.request)
                 THEN Send(chat_invoke(env.request.value, env))
                 ELSE RequestValidationError
    /\ pc' = "replied"
    /\ UNCHANGED <<response, formatted, again, doc, question, model_name,
                   story, buffers, ui, session, clientVars, env>>

LocalChatInvoke ==
    /\ pc = "request"
    /\ env.route = "/local_chat/invoke"
    /\ result' = IF BodyIsDict(env.request)
                 THEN Send(local_chat_invoke(env.request.value, env))
                 ELSE RequestValidationError
    /\ pc' = "replied"
    /\ UNCHANGED <<response, formatted, again, doc, question, model_name,
                   story, buffers, ui, session, clientVars, env>>

NextBackend == ChatInvoke \/ LocalChatInvoke

SpecBackend == InitBackend /\ [][NextBackend]_vars

(***************************************************************************)
(* C23.  Notions of the description: the request is well-formed, its       *)
(* question and model with the defaults, and the model call succeeds.      *)
(***************************************************************************)
Replied == pc = "replied"

RequestInput ==
    IF "input" \in DOMAIN env.request.value.v
    THEN env.request.value.v.input ELSE JDict(EmptyDict)

Field(d, key, default) == IF key \in DOMAIN d.v THEN d.v[key] ELSE default

WellFormedRequest ==
    /\ BodyIsDict(env.request)
    /\ RequestInput.type = "dict"
    /\ Field(RequestInput, "question", JStr(<<>>)).type = "str"
    /\ Field(RequestInput, "model", JStr(<<>>)).type = "str"

ModelCallSucceeds ==
    /\ env.llm.kind = "returned"
    /\ env.route = "/chat/invoke" => env.groq_api_key

RouteDefaultModel ==
    IF env.route = "/chat/invoke" THEN JStr(<<"llama3-70b-8192">>)
    ELSE JStr(<<"qwen3:0.6b">>)

IsOutputEnvelope(r) ==
    /\ r.status_code \in 200..299
    /\ r.body.type = "dict"
    /\ DOMAIN r.body.v = {"output"}
    /\ r.body.v.output.type = "str"

IsDetailEnvelope(r) ==
    /\ r.status_code = 500
    /\ r.body.type = "dict"
    /\ DOMAIN r.body.v = {"detail"}
    /\ r.body.v.detail.type = "str"

(***************************************************************************)
(* C23: both chat routes answer every request with one of two envelopes:   *)
(* {output: string} with a success status when the model call succeeds,    *)
(* or status 500 with {detail: string} on any failure (missing API key,    *)
(* provider error, malformed request); a missing question counts as the    *)
(* empty string and a missing model as the default model of the route.     *)
(***************************************************************************)
C23_OutputOrDetailEnvelope ==
    Replied =>
        /\ (WellFormedRequest /\ ModelCallSucceeds) =>
              /\ IsOutputEnvelope(result)
              /\ result.body.v.output = env.llm.value
        /\ ~(WellFormedRequest /\ ModelCallSucceeds) => IsDetailEnvelope(result)
        /\ WellFormedRequest =>
              chat_input_of(env.request.value, RouteDefaultModel) =
                  Returned([question |-> Field(RequestInput, "question",
                                               JStr(<<>>)),
                            model |-> Field(RequestInput, "model",
                                            RouteDefaultModel)])

(***************************************************************************)
(* The application (gui/app_controller.py).  Streamlit runs the script     *)
(* once per interaction of the user with the page: run() is one run.  The  *)
(* session state is a dictionary from keys to values; it outlives the      *)
(* runs.  env holds what the run is started with: the button the user      *)
(* pressed on the page (none when a widget value changed or the page is    *)
(* loaded), whether the backend is reachable, whether the PDF layout       *)
(* completes, the session state before the run, and whether the health     *)
(* check of the run that wrote the page acted on had returned true.        *)
(* question, mode and                                                      *)
(* model_name are the values of the input widgets, backend is the answer   *)
(* to the POST of the run, sent the requests of the run and ui the page    *)
(* the run has written.                                                    *)
(***************************************************************************)
SessionSet(s, key, value) ==
    [k \in DOMAIN s \cup {key} |-> IF k = key THEN value ELSE s[k]]

SessionDel(s, keys) == [k \in DOMAIN s \ keys |-> s[k]]

\* A session state that is reset on every run.
initialize_session_state_always(s) ==
    SessionSet(SessionSet(SessionSet(s, "current_response", None),
                          "current_question", None),
               "current_model", None)

\* SessionStateManager.initialize_session_state
initialize_session_state(s) ==
    LET s1 == IF "current_response" \notin DOMAIN s
              THEN SessionSet(s, "current_response", None) ELSE s
        s2 == IF "current_question" \notin DOMAIN s1
              THEN SessionSet(s1, "current_question", None) ELSE s1
    IN  IF "current_model" \notin DOMAIN s2
        THEN SessionSet(s2, "current_model", None) ELSE s2

\* A store_response that keeps the question and the model stored before.
store_response_only(s, resp, q, m) ==
    SessionSet(s, "current_response", resp)

\* SessionStateManager.store_response
store_response(s, resp, q, m) ==
    SessionSet(SessionSet(SessionSet(s, "current_response", resp),
                          "current_question", q),
               "current_model", m)

\* SessionStateManager.has_current_response
has_current_response(s) ==
    /\ "current_response" \in DOMAIN s
    /\ s.current_response # None

\* SessionStateManager.get_current_response_data
get_current_response_data(s) ==
    [response |-> s.current_response, question |-> s.current_question,
     model |-> s.current_model]

ClearedPrefixes ==
    {"current_response", "current_question", "current_model", "copied_text"}

\* key.startswith(prefixes): of the keys of the session state, those that
\* start with one of the prefixes are the prefixes themselves.
startswith(key, prefixes) == key \in prefixes

\* A clear that removes the stored response only.
clear_session_state_response_only(s) == SessionDel(s, {"current_response"})

\* MainChatInterface._clear_session_state
clear_session_state(s) ==
    SessionDel(s, {key \in DOMAIN s : startswith(key, ClearedPrefixes)})

\* if response: a non-empty string is true, None and '' are false.
Truthy(v) == v.type = "str" /\ v.v # <<>>

\* The POST of get_response of the client of a mode.
get_response_request(m_mode, input_text, m) ==
    IF m_mode = "Cloud AI"
    THEN HttpRequest("POST", "/chat/invoke", ChatBody(input_text, m), 60)
    ELSE HttpRequest("POST", "/local_chat/invoke", ChatBody(input_text, m),
                     120)

\* MainApplicationController._process_user_request, on the session state s
\* and with reply the answer of the backend: the session state, the elements
\* displayed, the requests sent and what get_response returned or raised.
process_user_request(generate_button, input_text, m_mode, m, reply, s) ==
    IF generate_button
    THEN IF input_text # <<>> /\ NonBlank(input_text)
         THEN LET post == get_response_request(m_mode, input_text,
                                               m)
                  after(call) ==
                      [session |->
                           IF call.result.kind = "returned"
                              /\ Truthy(call.result.value)
                           THEN store_response(s, call.result.value,
                                               JStr(input_text),
                                               JStr(m))
                           ELSE s,
                       ui |-> call.ui, sent |-> <<post>>,
                       result |-> call.result]
              IN  after(IF m_mode = "Cloud AI"
                        THEN cloud_get_response(input_text, m, reply)
                        ELSE local_get_response(input_text, m, reply))
         ELSE [session |-> s,
               ui |-> <<Shown("warning", "Please enter a question or prompt.",
                              <<>>, <<>>)>>,
               sent |-> <<>>, result |-> Returned(None)]
    ELSE [session |-> s, ui |-> <<>>, sent |-> <<>>, result |-> Returned(None)]

\* MainChatInterface.render_response_section, on the session state s.
render_response_section(resp, q, m, layoutOK, clicked, s) ==
    LET section(formatted_response, button) ==
            [formatted |-> formatted_response,
             buffers |-> button.buffers,
             ui |-> render_thinking_sections(formatted_response.thinking)
                    \o render_main_response(formatted_response.main_response,
                                            m)
                    \o button.ui
                    \o render_copy_button(resp, clicked)
                    \o render_response_statistics(
                           formatted_response.statistics, m),
             session |-> IF clicked
                         THEN SessionSet(s, "copied_text", JStr(resp))
                         ELSE s]
        download(formatted_response) ==
            section(formatted_response,
                    render_pdf_download_button(
                        formatted_response.main_response, q, m, resp,
                        layoutOK))
    IN  download(process_response(resp))

\* MainApplicationController._display_current_response
display_current_response(s, layoutOK, clicked) ==
    IF has_current_response(s)
    THEN LET data == get_current_response_data(s)
         IN  render_response_section(data.response.v, data.question.v,
                                     data.model.v, layoutOK, clicked, s)
    ELSE [formatted |-> Null, buffers |-> <<>>, ui |-> <<>>, session |-> s]

\* The answers of the backend to GET /health and GET /models.
HealthReply(up) ==
    IF up
    THEN [kind |-> "response", class |-> "", status_code |-> 200,
          body |-> [json |-> TRUE,
                    value |-> JDict([status |->
                                 JStr(<<"h", "e", "a", "l", "t", "h", "y">>)])]]
    ELSE [kind |-> "exception", class |-> "ConnectionError",
          status_code |-> 0, body |-> Null]

ModelsReply(up) ==
    IF up
    THEN [kind |-> "response", class |-> "", status_code |-> 200,
          body |-> [json |-> TRUE, value |-> JDict(ServerModels)]]
    ELSE [kind |-> "exception", class |-> "ConnectionError",
          status_code |-> 0, body |-> Null]

\* ConfigurationSidebar.render up to the refresh button.
render_sidebar(server_online, available_models, m_mode, selected_model) ==
    << Shown("markdown", "server-status",
             IF server_online THEN "online" ELSE "offline", <<>>),
       Shown("selectbox", "Select AI Mode:", m_mode, <<>>),
       Shown("selectbox", "Select Model:", selected_model, <<>>),
       Shown("button", "Refresh Models", <<>>, <<>>) >>

\* The rest of the page with an Ask button that is never disabled.
render_input_and_buttons_enabled(server_online, m_mode, m, input_text) ==
    << Shown("radio", "Input method", "Text Input", <<>>),
       Shown("markdown", "mode-indicator", m_mode, <<>>),
       Shown("text_input", "chat_input", input_text, <<>>),
       Shown("button", "Ask Assistant", "enabled", <<>>),
       Shown("button", "Clear", <<>>, <<>>) >>

\* The rest of the page above the response: input method, quick start, mode
\* indicator, input widget and the action buttons.
render_input_and_buttons(server_online, m_mode, m, input_text) ==
    << Shown("radio", "Input method", "Text Input", <<>>),
       Shown("markdown", "mode-indicator", m_mode, <<>>),
       Shown("text_input", "chat_input", input_text, <<>>),
       Shown("button", "Ask Assistant",
             IF server_online THEN "enabled" ELSE "disabled", <<>>),
       Shown("button", "Clear", <<>>, <<>>) >>

Header == <<Shown("markdown", "main-header", <<>>, <<>>)>>

Footer == <<Shown("markdown", "footer", <<>>, <<>>)>>

\* Streamlit displays an exception that leaves the script.
Uncaught(exc) == <<Shown("exception", exc.class, <<>>, <<>>)>>

Buttons == {"none", "ask", "clear", "copy", "refresh"}

SessionQuestions == {<<>>, <<" ">>, <<"H", "i">>, <<"Y", "o">>}

\* The model the user selects in a mode.
SessionModels(m_mode) ==
    IF m_mode = "Cloud AI" THEN {<<"llama3-70b-8192">>}
    ELSE {<<"qwen3:0.6b">>}

\* The answers of the backend to the POST of a run: two texts, the empty
\* text, no connection, and status 500 with a detail and without JSON.
SessionReplies ==
    {[kind |-> "response", class |-> "", status_code |-> 200,
      body |-> [json |-> TRUE, value |-> JDict([output |-> JStr(t)])]] :
        t \in {<<"a">>, <<"---">>, <<>>}}
    \cup {[kind |-> "exception", class |-> "ConnectionError",
           status_code |-> 0, body |-> Null],
          [kind |-> "response", class |-> "", status_code |-> 500,
           body |-> [json |-> TRUE,
                     value |-> JDict([detail |-> JStr(<<"b", "o", "o", "m">>)])]],
          [kind |-> "response", class |-> "", status_code |-> 500,
           body |-> [json |-> FALSE, value |-> Null]]}

NoPost ==
    [kind |-> "exception", class |-> "ConnectionError", status_code |-> 0,
     body |-> Null]

\* The Ask button of the page on display can be pressed.
AskEnabled ==
    \E i \in 1..Len(ui) :
        /\ ui[i].widget = "button"
        /\ ui[i].label = "Ask Assistant"
        /\ ui[i].data = "enabled"

OnPage(widget, label) ==
    \E i \in 1..Len(ui) : ui[i].widget = widget /\ ui[i].label = label

\* What the user can press: nothing on the first load and in a rerun asked
\* for by st.rerun(); on a page the buttons it holds, Ask when it is enabled.
Pressable ==
    IF pc # "page" THEN {"none"}
    ELSE {"none"}
         \cup (IF AskEnabled THEN {"ask"} ELSE {})
         \cup (IF OnPage("button", "Clear") THEN {"clear"} ELSE {})
         \cup (IF OnPage("button", "Copy Response") THEN {"copy"} ELSE {})
         \cup (IF OnPage("button", "Refresh Models") THEN {"refresh"} ELSE {})

(***************************************************************************)
(* The session specification.  The user acts on the page on display (or    *)
(* loads the page for the first time, or an st.rerun() of the last run     *)
(* takes effect), which starts a run; the run executes run().              *)
(***************************************************************************)
InitSession ==
    /\ response = <<>>
    /\ formatted = Null
    /\ again = Null
    /\ doc = <<>>
    /\ question = <<>>
    /\ model_name = <<"llama3-70b-8192">>
    /\ story = Null
    /\ pc = "start"
    /\ buffers = <<>>
    /\ result = Null
    /\ ui = <<>>
    /\ session = EmptyDict
    /\ mode = "Cloud AI"
    /\ backend = NoPost
    /\ sent = <<>>
    /\ env = [button |-> "none", up |-> FALSE, layoutOK |-> TRUE,
              before |-> EmptyDict, page_online |-> FALSE]

\* The user's interaction with the page that starts the next run; the first
\* load and a rerun asked for by st.rerun() keep the widget values.  The
\* answer to the POST matters in a run that sends one, the PDF layout in a
\* run that gets to the response section.
UserActs ==
    /\ pc \in {"start", "page", "rerun"}
    /\ \E b \in Pressable :
          \E q \in (IF pc = "page" THEN SessionQuestions ELSE {question}),
             md \in (IF pc = "page" THEN Modes ELSE {mode}),
             up \in BOOLEAN :
             \E reply \in (IF b = "ask" /\ NonBlank(q) THEN SessionReplies
                            ELSE {NoPost}),
                layoutOK \in (IF b \in {"clear", "refresh"} THEN {TRUE}
                               ELSE BOOLEAN) :
                /\ env' = [button |-> b, up |-> up, layoutOK |-> layoutOK,
                           before |-> session,
                           page_online |->
                               pc # "start"
                               /\ check_server_status(HealthReply(env.up))]
                /\ question' = q
                /\ mode' = md
                /\ model_name' \in SessionModels(md)
                /\ backend' = reply
    /\ ui' = <<>>
    /\ sent' = <<>>
    /\ result' = Null
    /\ buffers' = <<>>
    /\ formatted' = Null
    /\ pc' = "running"
    /\ UNCHANGED <<response, again, doc, story, session>>

\* MainApplicationController.run
Run ==
    /\ pc = "running"
    /\ LET s0 == initialize_session_state(session)
           server_online == check_server_status(HealthReply(env.up))
           available_models == get_available_models(ModelsReply(env.up))
           gets == << HttpRequest("GET", "/health", Null, 5),
                      HttpRequest("GET", "/models", Null, 10) >>
           sidebar == render_sidebar(server_online, available_models, mode,
                                     model_name)
           s1 == SessionSet(s0, "chat_input", JStr(question))
           top == Header \o sidebar
                  \o render_input_and_buttons(server_online, mode,
                                              model_name, question)
           ends(request, shown) ==
               /\ sent' = gets \o (IF env.button \in {"refresh", "clear"}
                                   THEN <<>> ELSE request.sent)
               /\ CASE env.button = "refresh" ->
                        \* st.rerun() in the sidebar
                        /\ session' = s0
                        /\ ui' = Header \o sidebar
                        /\ result' = Null
                        /\ buffers' = <<>>
                        /\ formatted' = Null
                        /\ pc' = "rerun"
                    [] env.button = "clear" ->
                        \* _clear_session_state(); st.rerun()
                        /\ session' = clear_session_state(s1)
                        /\ ui' = top
                        /\ result' = Null
                        /\ buffers' = <<>>
                        /\ formatted' = Null
                        /\ pc' = "rerun"
                    [] OTHER ->
                        IF request.result.kind = "raised"
                        THEN /\ session' = request.session
                             /\ ui' = top \o request.ui
                                      \o Uncaught(request.result.value)
                             /\ result' = request.result
                             /\ buffers' = <<>>
                             /\ formatted' = Null
                             /\ pc' = "page"
                        ELSE /\ session' = shown.session
                             /\ ui' = top \o request.ui \o shown.ui
                                      \o Footer
                             /\ result' = request.result
                             /\ buffers' = shown.buffers
                             /\ formatted' = shown.formatted
                             /\ pc' = "page"
           displays(request) ==
               ends(request,
                    display_current_response(request.session, env.layoutOK,
                                             env.button = "copy"))
       IN  displays(process_user_request(env.button = "ask", question, mode,
                                         model_name, backend, s1))
    /\ UNCHANGED <<response, again, doc, question, model_name, story, mode,
                   backend, env>>

NextSession == UserActs \/ Run

SpecSession == InitSession /\ [][NextSession]_vars

(***************************************************************************)
(* Notions the properties of the application are stated with.              *)
(***************************************************************************)
\* A run has ended: on a page, or in st.rerun().
RunEnded == pc \in {"page", "rerun"}

AskPressed == env.button = "ask"

Posts == SelectSeq(sent, LAMBDA r : r.method = "POST")

\* The health check of the run returned true.
HealthCheckPassed == check_server_status(HealthReply(env.up))

\* The value stored under a key, None when the key is not set.
Stored(s, key) == IF key \in DOMAIN s THEN s[key] ELSE None

StoredTriple(s) ==
    <<Stored(s, "current_response"), Stored(s, "current_question"),
      Stored(s, "current_model")>>

NothingStored(s) == StoredTriple(s) = <<None, None, None>>

\* The response section is on the page.
ResponseDisplayed == OnPage("markdown", "main_response")

\* An error is on the page: a message of the client, or the exception that
\* left the script.
ErrorDisplayed ==
    \E i \in 1..Len(ui) :
        \/ /\ ui[i].widget = "error"
           /\ ui[i].label # "Error creating PDF"
        \/ ui[i].widget = "exception"

C26_AnswerStoredOrErrorDisplayed ==
    (RunEnded /\ AskPressed /\ NonBlank(question)) =>
        LET answered ==
                /\ result.kind = "returned"
                /\ result.value # None
                /\ StoredTriple(session) =
                       <<result.value, JStr(question), JStr(model_name)>>
                /\ ResponseDisplayed
        IN  /\ answered \/ ErrorDisplayed
            /\ ~(answered /\ ErrorDisplayed)

\* The run produced a new answer: Ask was pressed with a question that is
\* not blank and get_response returned a text that is not empty.
NewAnswer ==
    /\ AskPressed
    /\ NonBlank(question)
    /\ result.kind = "returned"
    /\ Truthy(result.value)

\* The request of the run: its answer, its question and its model.
RequestTriple == <<result.value, JStr(question), JStr(model_name)>>

IsText(v) == v.type = "str"

(***************************************************************************)
(* C27: in every state of the session the stored response, question and    *)
(* model are all unset or None, or they are the answer, the question and   *)
(* the model of one and the same successful request: a run leaves the      *)
(* three as they were, removes all three, or stores the three of the       *)
(* request it has just made.                                               *)
(***************************************************************************)
C27_StoredTripleOfOneRequest ==
    /\ \/ NothingStored(session)
       \/ \A i \in 1..3 : IsText(StoredTriple(session)[i])
    /\ RunEnded =>
          \/ StoredTriple(session) = StoredTriple(env.before)
          \/ NothingStored(session)
          \/ NewAnswer /\ StoredTriple(session) = RequestTriple

C27_Witness ==
    /\ pc = "page"
    /\ NewAnswer
    /\ ~NothingStored(env.before)
    /\ StoredTriple(session) = RequestTriple
    /\ \A i \in 1..3 : StoredTriple(session)[i] # StoredTriple(env.before)[i]

(***************************************************************************)
(* C28: a run that produces no new answer (Ask not pressed, question       *)
(* empty or blank, get_response returning None after a failure) and in     *)
(* which Clear is not pressed leaves the stored response, question and     *)
(* model unchanged, and the stored response is displayed again with its    *)
(* own question and model, not with the text or the model on the widgets.  *)
(***************************************************************************)
EndsWith(s, t) ==
    /\ Len(s) >= Len(t)
    /\ SubSeq(s, Len(s) - Len(t) + 1, Len(s)) = t

C28_NoNewAnswerKeepsStored ==
    (RunEnded /\ ~NewAnswer /\ env.button # "clear") =>
        /\ StoredTriple(session) = StoredTriple(env.before)
        /\ (pc = "page" /\ result.kind = "returned"
                /\ ~NothingStored(env.before)) =>
              EndsWith(ui,
                  render_response_section(
                      Stored(env.before, "current_response").v,
                      Stored(env.before, "current_question").v,
                      Stored(env.before, "current_model").v,
                      env.layoutOK, env.button = "copy", session).ui
                  \o Footer)

C28_Witness ==
    /\ pc = "page"
    /\ AskPressed
    /\ NonBlank(question)
    /\ result.kind = "returned"
    /\ result.value = None
    /\ ~NothingStored(session)
    /\ Stored(session, "current_question") # JStr(question)
    /\ Stored(session, "current_model") # JStr(model_name)
    /\ ResponseDisplayed
    /\ \E i \in 1..Len(ui) :
          /\ ui[i].widget = "markdown"
          /\ ui[i].label = "Assistant"
          /\ ui[i].data = Stored(session, "current_model").v

(***************************************************************************)
(* C29: a run in which Clear is pressed removes the stored response,       *)
(* question, model and copied text from the session and leaves every       *)
(* other key as it is; from then on has_current_response is false and no   *)
(* response section is displayed until a later request succeeds.           *)
(***************************************************************************)
C29_ClearRemovesStoredOnly ==
    /\ (RunEnded /\ env.button = "clear") =>
          /\ pc = "rerun"
          /\ DOMAIN session \cap ClearedPrefixes = {}
          /\ \A key \in DOMAIN env.before \ ClearedPrefixes :
                key \in DOMAIN session
          /\ session.chat_input = JStr(question)
          /\ ~has_current_response(session)
          /\ ~ResponseDisplayed
    /\ (RunEnded /\ ~has_current_response(env.before) /\ ~NewAnswer) =>
          /\ ~has_current_response(session)
          /\ ~ResponseDisplayed
    /\ ResponseDisplayed => has_current_response(session)

C29_Witness ==
    /\ pc = "rerun"
    /\ env.button = "clear"
    /\ has_current_response(env.before)
    /\ "copied_text" \in DOMAIN env.before
    /\ "chat_input" \in DOMAIN env.before
    /\ session = [chat_input |-> JStr(question)]
    /\ question # <<>>

====
